---- MODULE Spec2Model ----
(***************************************************************************)
(* Project aggregate persistence and consistency: the unit of work         *)
(* (app/core/unit_of_work.py), the SQLAlchemy project repository           *)
(* (app/infrastructure/repositories/sqlalchemy_project_repository.py),     *)
(* the cache service (app/core/cache.py) and the project application       *)
(* service (app/services/project_service.py).                              *)
(***************************************************************************)
EXTENDS Integers, Sequences, FiniteSets, TLC

\* ------------------------------------------------------------------ bounds
\* Number of project ids the autoincrement key can hand out.
MaxProjects == 2
\* Number of sessions the session factory can create (activations of a scope).
MaxSessions == 3

\* Number of concurrent callers of the project service (requests in flight).
NCallers == 2
\* Number of mutating service calls (create, update, start, pause, complete,
\* cancel, delete) started in one behaviour; get calls are not limited.
MaxMutations == 1

\* Number of lines the observations of the entity under test can hold.
MaxLines == 2

\* The time to live of a cache entry, in ticks of the clock, and the last tick.
Ttl == 1
MaxClock == 3

\* The rows of projetos that a listing pages through, and the largest page
\* size asked for below the service's cap.
MaxRows == 4
MaxLimit == 3

\* list_projects_cursor and list_projects: limit = min(limit, 100)
MaxPageSize == 100

\* get_by_client and get_active_projects: get_all(..., limit=1000)
ReportLimit == 1000

ProjectIds == 1..MaxProjects
Callers == 1..NCallers
SessionIds == 1..MaxSessions

\* ------------------------------------------------------------- plain values
None == "None"
\* Optional[...] values: the empty sequence is absent, <<x>> is x.
Absent == << >>
Some(x) == << x >>
\* Project.id before the store assigns one (id: Optional[int] = None).
NoId == 0
\* SqlAlchemyUnitOfWork._session / _projects before a session exists (None).
NoSession == 0
RuntimeError == "RuntimeError"
RepositoryError == "RepositoryError"
ProjectNotFoundError == "ProjectNotFoundError"

PLANEJAMENTO == "planejamento"
EM_ANDAMENTO == "em_andamento"
PAUSADO == "pausado"
CONCLUIDO == "concluido"
CANCELADO == "cancelado"
ProjectStatus == {PLANEJAMENTO, EM_ANDAMENTO, PAUSADO, CONCLUIDO, CANCELADO}

BusinessRuleViolationError == "BusinessRuleViolationError"
InvalidStateTransitionError == "InvalidStateTransitionError"

\* Dates are day numbers; NoDate is None in a date field.
NoDate == 0
\* A day before today and a day after it, as arguments of the service calls.
EarlyDate == 10
LateDate == 20
\* The first day of the month: date(2025, 1, 1).
FirstDate == 1
\* date.today() and the server's now(): one fixed day and instant.
Today == 15
Now == "2025-01-15T00:00:00"

VARIABLES
    db,            \* committed rows of table projetos: id -> Absent or Some(row)
    nextId,        \* next autoincrement id of projetos
    sessions,      \* the sessions the factory has made: id -> session state
    nextSession,   \* next session the factory makes
    uow_session,   \* SqlAlchemyUnitOfWork._session
    uow_projects,  \* SqlAlchemyUnitOfWork._projects: None or the session its repository holds
    inScope,       \* the caller is inside the with-block of the unit of work
    fate,          \* history: what became, at the scope's level, of each id saved in a scope
    lastOp,        \* history: the last call on the unit of work and its outcome
    cache,         \* Redis keys projects:project:<id>: id -> Absent or Some(entry)
    calls,         \* the ProjectService calls in progress, one per caller
    nMutations,    \* number of mutating service calls started
    lastRet,       \* history: the service call that returned last
    retVer,        \* history: per project, the latest commit whose service call has returned
    commitAt,      \* history: per project, the tick of each of those commits
    hist,          \* history: per project, the row the table held after each commit of a
                   \*          service call, oldest first (entry 1 is the initial state)
    clock,         \* the time, in ticks
    listing,       \* a client paging through list_projects_cursor, and the pages it got
    offsetOp,      \* history: the last offset-based listing call and what it returned
    tables,        \* committed rows of the tables that depend on projetos
    delOp,         \* history: the last repository.delete call and its outcome
    path,          \* history: the calls made on entity since its construction, in order
    cmp,           \* two Project objects, and the outcome of comparing and hashing them
    entity,        \* a Project entity in memory, outside any store
    entOp          \* history: the last operation called on entity and its outcome

uowVars == <<db, nextId, sessions, nextSession, uow_session, uow_projects,
             inScope, fate, lastOp>>
svcVars == <<cache, calls, nMutations, lastRet, retVer, hist, commitAt>>
entVars == <<entity, entOp>>
\* The variables neither the unit of work nor the service touches.
pageVars == <<listing, offsetOp>>
delVars == <<tables, delOp>>
scenVars == <<path>>
cmpVars == <<cmp>>
otherVars == <<entVars, clock, pageVars, delVars, scenVars, cmpVars>>
\* What an operation on the entity in memory leaves alone.
notEntVars == <<uowVars, svcVars, clock, pageVars, delVars, scenVars, cmpVars>>
vars == <<uowVars, svcVars, otherVars>>

\* --------------------------------------------------------- entity and row
\* Project(...) with the dataclass defaults (id None, status PLANEJAMENTO,
\* start_date today, the other fields None).
Project(name) ==
    [id |-> NoId, name |-> name, description |-> None, start_date |-> Today,
     end_date_planned |-> NoDate, end_date_actual |-> NoDate, status |-> PLANEJAMENTO,
     client_id |-> 1, responsible_user_id |-> 1, observations |-> Absent,
     estimated_value |-> None, created_at |-> None, updated_at |-> None,
     deleted_at |-> None]

\* _to_orm, with the created_at server default the insert fills in.
to_orm(e) ==
    [nome |-> e.name, descricao |-> e.description, data_inicio |-> e.start_date,
     data_fim_prevista |-> e.end_date_planned, data_fim_real |-> e.end_date_actual,
     status |-> e.status, cliente_id |-> e.client_id,
     responsavel_id |-> e.responsible_user_id, observacoes |-> e.observations,
     valor_estimado |-> e.estimated_value, created_at |-> Now, updated_at |-> None,
     deleted_at |-> None]

\* _to_domain
to_domain(id, row) ==
    [id |-> id, name |-> row.nome, description |-> row.descricao,
     start_date |-> row.data_inicio, end_date_planned |-> row.data_fim_prevista,
     end_date_actual |-> row.data_fim_real, status |-> row.status,
     client_id |-> row.cliente_id, responsible_user_id |-> row.responsavel_id,
     observations |-> row.observacoes, estimated_value |-> row.valor_estimado,
     created_at |-> row.created_at, updated_at |-> row.updated_at,
     deleted_at |-> row.deleted_at]

\* _update_orm: every scalar field of the row is overwritten from the entity,
\* updated_at is set to now().
update_orm(row, e) ==
    [row EXCEPT !.nome = e.name, !.descricao = e.description,
                !.data_inicio = e.start_date, !.data_fim_prevista = e.end_date_planned,
                !.data_fim_real = e.end_date_actual, !.status = e.status,
                !.cliente_id = e.client_id, !.responsavel_id = e.responsible_user_id,
                !.observacoes = e.observations, !.valor_estimado = e.estimated_value,
                !.updated_at = Now]

\* ------------------------------------------------------ entity operations
\* Each operation is a pair: whether it raises, and the entity it leaves.

\* Project._validate_dates raises BusinessRuleViolationError.
validate_dates_raises(e) ==
    e.end_date_planned # NoDate /\ e.end_date_planned < e.start_date

\* A start() that only refuses the running and the completed projects.
start_raises_when_active_or_completed(e) == e.status \in {EM_ANDAMENTO, CONCLUIDO}

\* A start() that forgets the paused projects.
start_raises_unless_planning(e) == e.status # PLANEJAMENTO

\* Project.start
start_raises(e) == e.status \notin {PLANEJAMENTO, PAUSADO}
start(e) == IF start_raises(e) THEN e ELSE [e EXCEPT !.status = EM_ANDAMENTO]

\* A pause() that only refuses the finished projects.
pause_raises_when_finished(e) == e.status \in {CONCLUIDO, CANCELADO}

\* Project.pause
pause_raises(e) == e.status # EM_ANDAMENTO
pause(e) == IF pause_raises(e) THEN e ELSE [e EXCEPT !.status = PAUSADO]

\* A complete() that records the completion date only when it is given.
complete_without_default(e, completion_date) ==
    IF e.status # EM_ANDAMENTO THEN e
    ELSE [e EXCEPT !.status = CONCLUIDO,
                   !.end_date_actual = IF completion_date # NoDate THEN completion_date ELSE @]

\* Project.complete(completion_date)
complete_raises(e) == e.status # EM_ANDAMENTO
complete(e, completion_date) ==
    IF complete_raises(e) THEN e
    ELSE [e EXCEPT !.status = CONCLUIDO,
                   !.end_date_actual = IF completion_date # NoDate THEN completion_date
                                       ELSE Today]

\* A cancel() that stamps the day of the cancellation as the actual end date.
cancel_stamping_end_date(e, reason) ==
    IF e.status = CONCLUIDO THEN e
    ELSE [e EXCEPT !.status = CANCELADO, !.end_date_actual = Today,
                   !.observations = IF reason \notin {None, ""}
                                    THEN << "[CANCELADO] " \o reason >> \o @ ELSE @]

\* A cancel() that also refuses the cancelled projects.
cancel_raises_when_closed(e) == e.status \in {CONCLUIDO, CANCELADO}

\* Project.cancel(reason): the reason, when given and not empty, is put in
\* front of the observations as a line "[CANCELADO] <reason>".
cancel_raises(e) == e.status = CONCLUIDO
cancel(e, reason) ==
    IF cancel_raises(e) THEN e
    ELSE [e EXCEPT !.status = CANCELADO,
                   !.observations = IF reason \notin {None, ""}
                                    THEN << "[CANCELADO] " \o reason >> \o @ ELSE @]

\* An is_modifiable that only excludes the completed projects.
is_modifiable_unless_completed(e) == e.status # CONCLUIDO

\* A duration counted up to the planned end date.
duration_days_to_planned_end(e) ==
    IF e.end_date_planned = NoDate THEN Absent ELSE Some(e.end_date_planned - e.start_date)

\* Project.duration_days: None until end_date_actual is set.
duration_days(e) ==
    IF e.end_date_actual = NoDate THEN Absent ELSE Some(e.end_date_actual - e.start_date)

\* Project.is_modifiable
is_modifiable(e) == e.status \notin {CONCLUIDO, CANCELADO}

\* An update_details that assigns name and description as they come, None
\* included.
update_details_overwriting(e, name, description, end_date_planned, observations, estimated_value) ==
    IF ~is_modifiable(e) THEN e
    ELSE LET e2 == [e EXCEPT !.name = name, !.description = description]
             e3 == IF end_date_planned # NoDate
                   THEN [e2 EXCEPT !.end_date_planned = end_date_planned] ELSE e2
             e4 == IF observations # Absent THEN [e3 EXCEPT !.observations = observations[1]]
                   ELSE e3
             e5 == IF estimated_value # None THEN [e4 EXCEPT !.estimated_value = estimated_value]
                   ELSE e4
         IN IF end_date_planned # NoDate /\ validate_dates_raises(e3) THEN e3 ELSE e5

\* Project.update_details: the fields are assigned in the order of the code, and
\* the date check runs right after the assignment of end_date_planned.
update_details_raises(e, name, description, end_date_planned, observations, estimated_value) ==
    \/ ~is_modifiable(e)
    \/ /\ end_date_planned # NoDate
       /\ validate_dates_raises([e EXCEPT !.end_date_planned = end_date_planned])
update_details(e, name, description, end_date_planned, observations, estimated_value) ==
    IF ~is_modifiable(e) THEN e
    ELSE LET e1 == IF name # None THEN [e EXCEPT !.name = name] ELSE e
             e2 == IF description # None THEN [e1 EXCEPT !.description = description] ELSE e1
             e3 == IF end_date_planned # NoDate
                   THEN [e2 EXCEPT !.end_date_planned = end_date_planned] ELSE e2
             e4 == IF observations # Absent THEN [e3 EXCEPT !.observations = observations[1]]
                   ELSE e3
             e5 == IF estimated_value # None THEN [e4 EXCEPT !.estimated_value = estimated_value]
                   ELSE e4
         IN IF end_date_planned # NoDate /\ validate_dates_raises(e3) THEN e3 ELSE e5

\* ---------------------------------------------------------------- session
\* A session as SQLAlchemy keeps it: created by the factory, closed by close(),
\* dirty while it holds objects that were added but never committed, broken
\* after a failed flush or commit until rollback().
NewSession == [created |-> FALSE, closed |-> FALSE, dirty |-> FALSE, broken |-> FALSE]

\* Session.rollback(): discards what is pending; rbOk is whether the database
\* carried it out.
session_rollback(ss, s, rbOk) ==
    IF rbOk THEN [ss EXCEPT ![s] = [@ EXCEPT !.dirty = FALSE, !.broken = FALSE, !.closed = FALSE]]
    ELSE [ss EXCEPT ![s] = [@ EXCEPT !.broken = TRUE, !.closed = FALSE]]

\* Session.close(): releases the connection and drops everything pending.
session_close(ss, s) ==
    [ss EXCEPT ![s] = [@ EXCEPT !.dirty = FALSE, !.broken = FALSE, !.closed = TRUE]]

\* The query of get_by_id (filter_by(id=..., deleted_at=None).first()) on the
\* committed table.
query_live(table, id) ==
    IF id \in DOMAIN table /\ table[id] # Absent /\ table[id][1].deleted_at = None
    THEN Some(to_domain(id, table[id][1])) ELSE Absent

\* SQLAlchemyProjectRepository.get_by_id through session s: a broken session
\* refuses the query, which get_by_id wraps in RepositoryError.
get_by_id(s, id) == IF sessions[s].broken THEN Absent ELSE query_live(db, id)
get_by_id_raises(s) == sessions[s].broken

\* What a scope entered afresh reads for id: a new session on the committed table.
FreshGetById(id) == query_live(db, id)

\* ------------------------------------------------------ unit of work: ops
Op(op, res, sid, id, rbOk) ==
    [op |-> op, res |-> res, inScope |-> inScope, sid |-> sid, id |-> id, rbOk |-> rbOk,
     val |-> Absent]

\* History only: every id still "open" in the scope takes the fate f.
Settle(f) == [i \in ProjectIds |-> IF fate[i] = "open" THEN f ELSE fate[i]]

\* The projects property: the repository it returns is identified by the
\* session it was constructed with.
projects_property == IF uow_projects # NoSession THEN uow_projects ELSE uow_session
\* ... and it raises RuntimeError when there is neither a repository nor a session.
projects_raises == uow_projects = NoSession /\ uow_session = NoSession

\* __enter__
enter ==
    /\ UNCHANGED <<svcVars, otherVars>>
    /\ ~inScope
    /\ nextSession <= MaxSessions
    /\ uow_session' = nextSession
    /\ sessions' = [sessions EXCEPT ![nextSession].created = TRUE]
    /\ nextSession' = nextSession + 1
    /\ inScope' = TRUE
    /\ lastOp' = Op("enter", "ok", nextSession, NoId, TRUE)
    /\ UNCHANGED <<db, nextId, uow_projects, fate>>

\* __exit__(None, None, None): the with-block ends normally.
exit_normal ==
    /\ UNCHANGED <<svcVars, otherVars>>
    /\ inScope
    /\ inScope' = FALSE
    /\ IF uow_session # NoSession
       THEN /\ sessions' = session_close(sessions, uow_session)
            /\ uow_session' = NoSession
       ELSE UNCHANGED <<sessions, uow_session>>
    /\ fate' = Settle("dropped")
    /\ lastOp' = Op("exit", "ok", uow_session, NoId, TRUE)
    /\ UNCHANGED <<db, nextId, nextSession, uow_projects>>

\* __exit__(exc_type, ...): the with-block ends by an exception; rollback()
\* runs first and, when it raises, the close below it is not reached.
exit_exception(Outcomes) ==
    /\ UNCHANGED <<svcVars, otherVars>>
    /\ inScope
    /\ uow_session # NoSession
    /\ inScope' = FALSE
    /\ \E rbOk \in Outcomes :
         /\ IF rbOk
            THEN /\ sessions' = session_close(session_rollback(sessions, uow_session, TRUE),
                                              uow_session)
                 /\ uow_session' = NoSession
            ELSE /\ sessions' = session_rollback(sessions, uow_session, FALSE)
                 /\ UNCHANGED uow_session
         /\ lastOp' = Op("exit", IF rbOk THEN "ok" ELSE "error", uow_session, NoId, rbOk)
    /\ fate' = Settle("aborted")
    /\ UNCHANGED <<db, nextId, nextSession, uow_projects>>

\* uow.projects
access_projects ==
    /\ UNCHANGED <<svcVars, otherVars>>
    /\ uow_projects' = projects_property
    /\ lastOp' = Op("projects", IF projects_raises THEN RuntimeError ELSE "repo",
                    projects_property, NoId, TRUE)
    /\ UNCHANGED <<db, nextId, sessions, nextSession, uow_session, inScope, fate>>

\* uow.commit(): ok is whether the database carries the commit out, rbOk the
\* rollback that follows a failed commit.
commit(Outcomes) ==
    /\ UNCHANGED <<svcVars, otherVars>>
    /\ IF uow_session = NoSession
       THEN /\ lastOp' = Op("commit", RuntimeError, NoSession, NoId, TRUE)
            /\ UNCHANGED <<db, nextId, sessions, nextSession, uow_session, uow_projects,
                           inScope, fate>>
       ELSE \E ok \in Outcomes, rbOk \in Outcomes :
            /\ IF ok /\ ~sessions[uow_session].broken
               THEN /\ sessions' = [sessions EXCEPT ![uow_session].closed = FALSE]
                    /\ fate' = Settle("committed")
                    /\ lastOp' = Op("commit", "ok", uow_session, NoId, TRUE)
               ELSE /\ sessions' = session_rollback(sessions, uow_session, rbOk)
                    /\ fate' = Settle("commitfailed")
                    /\ lastOp' = Op("commit", "error", uow_session, NoId, rbOk)
            /\ UNCHANGED <<db, nextId, nextSession, uow_session, uow_projects, inScope>>

\* uow.rollback()
rollback(Outcomes) ==
    /\ UNCHANGED <<svcVars, otherVars>>
    /\ IF uow_session = NoSession
       THEN /\ lastOp' = Op("rollback", RuntimeError, NoSession, NoId, TRUE)
            /\ UNCHANGED <<db, nextId, sessions, nextSession, uow_session, uow_projects,
                           inScope, fate>>
       ELSE \E rbOk \in Outcomes :
            /\ sessions' = session_rollback(sessions, uow_session, rbOk)
            /\ fate' = IF rbOk THEN Settle("rolledback") ELSE fate
            /\ lastOp' = Op("rollback", IF rbOk THEN "ok" ELSE "error", uow_session, NoId, rbOk)
            /\ UNCHANGED <<db, nextId, nextSession, uow_session, uow_projects, inScope>>

\* uow.flush()
flush ==
    /\ UNCHANGED <<svcVars, otherVars>>
    /\ lastOp' = Op("flush",
                    IF uow_session = NoSession THEN RuntimeError
                    ELSE IF sessions[uow_session].broken THEN "error" ELSE "ok",
                    uow_session, NoId, TRUE)
    /\ sessions' = IF uow_session = NoSession THEN sessions
                   ELSE [sessions EXCEPT ![uow_session].closed = FALSE]
    /\ UNCHANGED <<db, nextId, nextSession, uow_session, uow_projects, inScope, fate>>

\* save()'s create branch on the committed table: add, commit, refresh.
save_create(table, id, e) == [table EXCEPT ![id] = Some(to_orm(e))]

\* uow.projects.save(Project(...)) inside the with-block: the create branch of
\* SQLAlchemyProjectRepository.save. ok is whether the database carries out
\* the session.commit() that save itself issues.
save(Outcomes) ==
    /\ UNCHANGED <<svcVars, otherVars>>
    /\ inScope
    /\ ~projects_raises
    /\ nextId <= MaxProjects
    /\ uow_projects' = projects_property
    /\ \E ok \in Outcomes :
         IF ok /\ ~sessions[projects_property].broken
         THEN /\ db' = save_create(db, nextId, Project("a"))
              /\ nextId' = nextId + 1
              /\ sessions' = [sessions EXCEPT ![projects_property].closed = FALSE]
              /\ fate' = [fate EXCEPT ![nextId] = "open"]
              /\ lastOp' = Op("save", "ok", projects_property, nextId, TRUE)
         ELSE /\ sessions' = [sessions EXCEPT ![projects_property] =
                                [@ EXCEPT !.dirty = TRUE, !.broken = TRUE, !.closed = FALSE]]
              /\ lastOp' = Op("save", RepositoryError, projects_property, NoId, TRUE)
              /\ UNCHANGED <<db, nextId, fate>>
    /\ UNCHANGED <<nextSession, uow_session, inScope>>

\* uow.projects.get_by_id(id) inside the with-block.
read ==
    /\ UNCHANGED <<svcVars, otherVars>>
    /\ inScope
    /\ ~projects_raises
    /\ uow_projects' = projects_property
    /\ \E id \in ProjectIds :
         lastOp' = [Op("get_by_id",
                       IF get_by_id_raises(projects_property) THEN RepositoryError ELSE "ok",
                       projects_property, id, TRUE)
                    EXCEPT !.val = get_by_id(projects_property, id)]
    /\ sessions' = [sessions EXCEPT ![projects_property].closed = FALSE]
    /\ UNCHANGED <<db, nextId, nextSession, uow_session, inScope, fate>>

\* ------------------------------------------------------------------ cache
DateFields == {"start_date", "end_date_planned", "end_date_actual"}
DateTimeFields == {"created_at", "updated_at", "deleted_at"}

\* A serialiser that accepts every value, as json.dumps(value, default=str) does.
json_dumps_default_str(d) == FALSE

\* json.dumps(value) in CacheService.set raises TypeError when the value holds
\* a date or a datetime.
json_dumps_raises(d) ==
    \/ \E f \in DateFields : d[f] # NoDate
    \/ \E f \in DateTimeFields : d[f] # None

\* What can go wrong in one call on the cache: the backend is unreachable (the
\* connection or the command raises), or the stored text is not JSON.
RedisError == "RedisError"
CacheFaults == {"none", "unreachable", "undecodable"}

\* Cache calls that let a fault out: no handler at all, or none for bad JSON.
cache_raises_unhandled(fault) == fault # "none"
cache_get_raises_on_bad_json(fault) == fault = "undecodable"

\* CacheService.get / set / delete / delete_pattern raise to the caller: the
\* handlers catch json.JSONDecodeError and Exception, so no fault gets out.
cache_get_raises(fault) == fault \notin {"none", "undecodable", "unreachable"}
cache_set_raises(fault) == fault \notin {"none", "unreachable"}
cache_delete_raises(fault) == fault \notin {"none", "unreachable"}

\* CacheService.get(f"project:{id}"): the entry, or None on a miss and on a
\* fault. Redis drops an entry when its time to live is over.
cache_get(c, id, fault) ==
    IF fault # "none" \/ c[id] = Absent THEN Absent
    ELSE IF c[id][1].expires <= clock THEN Absent
    ELSE c[id]

\* A set that stores the value as it is, without serialising it.
cache_set_unserialised(c, id, d, v, fault) ==
    IF fault # "none" THEN c
    ELSE [c EXCEPT ![id] = Some([value |-> d, v |-> v, expires |-> clock + Ttl])]

\* CacheService.set(f"project:{id}", value, ttl): a value that cannot be
\* serialised is not stored (set returns False); a stored value lives for ttl.
\* v is history: the commit the value was read at.
cache_set(c, id, d, v, fault) ==
    IF fault # "none" \/ json_dumps_raises(d) THEN c
    ELSE [c EXCEPT ![id] = Some([value |-> d, v |-> v, expires |-> clock + Ttl])]

\* An invalidation that misses the key get_project reads.
invalidate_project_detail_only(id) == {<<"project:detail", id>>}

\* The keys invalidate_project_cache(id) deletes, and the patterns
\* invalidate_projects_list_cache() deletes. A key is <<kind, discriminator>>.
invalidate_project_cache(id) == {<<"project", id>>, <<"project:detail", id>>}
invalidate_projects_list_cache == {<<"list:*", NoId>>, <<"statistics:*", NoId>>}

\* CacheService.delete of a set of keys; nothing is deleted on a fault.
cache_delete(c, keys, fault) ==
    IF fault # "none" THEN c
    ELSE [i \in ProjectIds |-> IF <<"project", i>> \in keys THEN Absent ELSE c[i]]

\* ---------------------------------------------------------------- service
\* The part of the state the service calls leave alone.
scopeVars == <<sessions, nextSession, uow_session, uow_projects, inScope, fate, lastOp>>

\* Arguments of a service call: name (create, update), date (end_date_planned
\* of create and update, completion_date of complete), reason (cancel).
NoArg == [name |-> None, date |-> NoDate, reason |-> None]
ArgsOf(op) ==
    CASE op = "create"   -> {[NoArg EXCEPT !.name = n, !.date = d] :
                                n \in {"", " ", " a"}, d \in {NoDate, EarlyDate}}
      [] op = "update"   -> {[NoArg EXCEPT !.name = "b", !.date = d] : d \in {NoDate, EarlyDate}}
      [] op = "complete" -> {[NoArg EXCEPT !.date = d] : d \in {NoDate, LateDate}}
      [] op = "cancel"   -> {[NoArg EXCEPT !.reason = r] : r \in {None, "r"}}
      [] OTHER           -> {NoArg}

\* str.strip() on the names above.
strip(name) == CASE name = " " -> "" [] name = " a" -> "a" [] OTHER -> name

\* A caller's call: where it stands (pc), the operation and its arguments, the
\* entity it holds, the row its session has loaded, the result. History:
\* hit (the entity came from the cache), need (the latest returned commit when
\* the call started), seen (the commit the entity was read at), wrote (the
\* commit the call made), inval (the cache keys it deleted), setArg (the value
\* it handed to cache.set), faults (the cache faults it met), started (the
\* tick at which the call began).
Idle ==
    [pc |-> "idle", op |-> "none", id |-> NoId, arg |-> NoArg, ent |-> Absent,
     loaded |-> Absent, hit |-> FALSE, res |-> "none", need |-> 0, seen |-> 0,
     wrote |-> 0, inval |-> {}, setArg |-> Absent, faults |-> {}, started |-> 0]

\* History: the number of commits service calls have made on project id.
ver(id) == Len(hist[id]) - 1

InitCalls ==
    /\ cache = [i \in ProjectIds |-> Absent]
    /\ calls = [c \in Callers |-> Idle]
    /\ nMutations = 0
    /\ lastRet = Idle
    /\ retVer = [i \in ProjectIds |-> 0]
    /\ hist = [i \in ProjectIds |-> << db[i] >>]
    /\ commitAt = [i \in ProjectIds |-> << 0 >>]

\* The entity operation each service method applies to the project it fetched.
entity_raises(op, e, a) ==
    CASE op = "update"   -> update_details_raises(e, a.name, None, a.date, Absent, None)
      [] op = "start"    -> start_raises(e)
      [] op = "pause"    -> pause_raises(e)
      [] op = "complete" -> complete_raises(e)
      [] op = "cancel"   -> cancel_raises(e)
\* A service that wraps the entity's error in an error of its own.
entity_error_wrapped(op) == RepositoryError

entity_error(op) ==
    IF op = "update" THEN BusinessRuleViolationError ELSE InvalidStateTransitionError
entity_apply(op, e, a) ==
    CASE op = "update"   -> update_details(e, a.name, None, a.date, Absent, None)
      [] op = "start"    -> start(e)
      [] op = "pause"    -> pause(e)
      [] op = "complete" -> complete(e, a.date)
      [] op = "cancel"   -> cancel(e, a.reason)

\* A save() whose UPDATE sets the columns that differ from the row as last
\* committed only where the selected row agrees with it.
flush_update_unless_stale(current, loaded, e) ==
    LET target == update_orm(loaded, e)
    IN [col \in DOMAIN current |->
          IF target[col] # loaded[col] /\ loaded[col] = current[col]
          THEN target[col] ELSE current[col]]

\* The UPDATE that save() flushes: _update_orm assigns every field on the row
\* object that save() selected in the call's session (loaded), and the
\* statement sets the columns whose assigned value differs from the selected
\* one, on the row as last committed (current).
flush_update(current, loaded, e) ==
    LET target == update_orm(loaded, e)
    IN [col \in DOMAIN current |->
          IF target[col] # loaded[col] THEN target[col] ELSE current[col]]

\* An empty table, no scope entered, no service call started.
InitIdle ==
    /\ db = [i \in ProjectIds |-> Absent]
    /\ nextId = 1
    /\ sessions = [s \in SessionIds |-> NewSession]
    /\ nextSession = 1
    /\ uow_session = NoSession
    /\ uow_projects = NoSession
    /\ inScope = FALSE
    /\ fate = [i \in ProjectIds |-> "none"]
    /\ lastOp = Op("init", "ok", NoSession, NoId, TRUE)
    /\ cache = [i \in ProjectIds |-> Absent]
    /\ InitCalls

\* update_details() with every argument left at its default None.
NoDetails ==
    [name |-> None, description |-> None, end_date_planned |-> NoDate,
     observations |-> Absent, estimated_value |-> None]

\* No entity operation called yet.
NoEntOp == [op |-> "none", before |-> Project("a"), date |-> NoDate, reason |-> None,
            args |-> NoDetails, error |-> "none"]
EntityIdle ==
    /\ entity = Project("a")
    /\ entOp = NoEntOp

\* No listing under way.
ListIdle ==
    [pc |-> "idle", limit |-> 0, status |-> None, client_id |-> NoId,
     after |-> Absent, cursor |-> Absent, page |-> <<>>, items |-> <<>>, pages |-> 0,
     present |-> {}]

\* The tables that depend on projetos, empty, and no delete called.
NoRows ==
    [project_contributors |-> {}, checkins |-> {}, anexos |-> {},
     tarefas_executadas |-> {}, sprints |-> {}, sprint_tasks |-> {}, logs_auditoria |-> {}]
NoDelOp == [id |-> NoId, res |-> "none", raisedAt |-> 0, before |-> << >>, pending |-> << >>,
            tx |-> "none"]
DeleteIdle == tables = NoRows /\ delOp = NoDelOp

\* No call made on the entity, nothing compared.
NoCmp == [a |-> Project("a"), b |-> Project("a"), same |-> FALSE, eq |-> FALSE,
          hash_a |-> 0, hash_b |-> 0, set_size |-> 0, done |-> FALSE]
RestIdle == path = << >> /\ cmp = NoCmp

\* No offset-based listing called.
NoOffsetOp == [via |-> "none", skip |-> 0, limit |-> 0, status |-> None, client_id |-> NoId,
               responsible_id |-> NoId, returned |-> << >>]
PagesIdle == listing = ListIdle /\ offsetOp = NoOffsetOp

OtherIdle == EntityIdle /\ clock = 0 /\ PagesIdle /\ DeleteIdle /\ RestIdle

InitUoW == InitIdle /\ OtherIdle

\* The caller's program: any call on the unit of work, in any order. The
\* database may fail any commit or rollback.
NextUoW ==
    \/ enter
    \/ exit_normal
    \/ exit_exception(BOOLEAN)
    \/ access_projects
    \/ commit(BOOLEAN)
    \/ rollback(BOOLEAN)
    \/ flush
    \/ save(BOOLEAN)
    \/ read

SpecUoW == InitUoW /\ [][NextUoW]_vars

\* The same program against a database that carries out every commit and
\* every rollback.
NextUoWReliable ==
    \/ enter
    \/ exit_normal
    \/ exit_exception({TRUE})
    \/ access_projects
    \/ commit({TRUE})
    \/ rollback({TRUE})
    \/ flush
    \/ save({TRUE})
    \/ read

SpecUoWReliable == InitUoW /\ [][NextUoWReliable]_vars

\* Call `call` of caller c returns res: the caller's slot is free again, and
\* the call is kept as the last one returned. History: the commit it made, if
\* any, counts as returned.
Return(c, call, res) ==
    /\ calls' = [calls EXCEPT ![c] = Idle]
    /\ lastRet' = [call EXCEPT !.pc = "done", !.res = res]
    /\ retVer' = IF call.wrote > 0 /\ call.wrote > retVer[call.id]
                 THEN [retVer EXCEPT ![call.id] = call.wrote] ELSE retVer

\* Call `call` of caller c goes on to step pc.
Goto(c, call, pc) ==
    /\ calls' = [calls EXCEPT ![c] = [call EXCEPT !.pc = pc]]
    /\ UNCHANGED <<lastRet, retVer>>

\* A request takes the first free slot among the callers.
Free(c) ==
    /\ calls[c].pc = "idle"
    /\ \A c2 \in Callers : c2 < c => calls[c2].pc # "idle"

\* A caller starts get_project, or a method that begins with get_project
\* (update_project, start_project, pause_project, complete_project,
\* cancel_project): cache.get on the project's key, and on a hit the entity is
\* rebuilt from the entry.
svc_start(c, Ops, Ids, Args, Faults, Limit) ==
    /\ UNCHANGED <<scopeVars, otherVars>>
    /\ Free(c)
    /\ \E op \in Ops, id \in Ids :
         \E arg \in Args[op], fault \in Faults :
           LET cached == cache_get(cache, id, fault)
               call == [Idle EXCEPT !.op = op, !.id = id, !.arg = arg, !.need = retVer[id],
                                    !.faults = {fault} \ {"none"}, !.started = clock]
           IN /\ op # "get" => nMutations < Limit
              /\ nMutations' = IF op = "get" THEN nMutations ELSE nMutations + 1
              /\ IF cache_get_raises(fault) THEN Return(c, call, RedisError)
                 ELSE IF cached # Absent
                 THEN LET got == [call EXCEPT !.ent = Some(cached[1].value), !.hit = TRUE,
                                              !.seen = cached[1].v]
                      IN IF op = "get" THEN Return(c, got, "ok") ELSE Goto(c, got, "mutate")
                 ELSE Goto(c, call, "db_get")
    /\ UNCHANGED <<db, nextId, cache, hist, commitAt>>

\* The same, with the arguments of ArgsOf and at most MaxMutations calls that
\* write.
svc_begin(c, Ops, Ids, Faults) ==
    svc_start(c, Ops, Ids, [op \in Ops |-> ArgsOf(op)], Faults, MaxMutations)

\* The ids callers ask for: the project the table holds from the start, and
\* the first one create_project adds.
RequestIds == {1, 2}

\* The same, for any of the methods and any of these ids.
svc_call(c, Faults) ==
    svc_begin(c, {"get", "update", "start", "pause", "complete", "cancel"}, RequestIds, Faults)

\* The same, for get_project, start_project and pause_project on project 1 only.
svc_call_1(c, Faults) == svc_begin(c, {"get", "start", "pause"}, {1}, Faults)

\* A get_project that returns what get_by_id gave, None included.
svc_db_get_returning_none(c) ==
    /\ UNCHANGED <<scopeVars, otherVars>>
    /\ calls[c].pc = "db_get"
    /\ LET id == calls[c].id
           project == query_live(db, id)
           call == [calls[c] EXCEPT !.seen = ver(id)]
       IN IF project = Absent
          THEN Return(c, call, "ok")
          ELSE Goto(c, [call EXCEPT !.ent = project, !.loaded = db[id]], "cache_set")
    /\ UNCHANGED <<db, nextId, cache, nMutations, hist, commitAt>>

\* get_project on a miss: repository.get_by_id on the call's session.
svc_db_get(c) ==
    /\ UNCHANGED <<scopeVars, otherVars>>
    /\ calls[c].pc = "db_get"
    /\ LET id == calls[c].id
           project == query_live(db, id)
           call == [calls[c] EXCEPT !.seen = ver(id)]
       IN IF project = Absent
          THEN Return(c, call, ProjectNotFoundError)
          ELSE Goto(c, [call EXCEPT !.ent = project, !.loaded = db[id]], "cache_set")
    /\ UNCHANGED <<db, nextId, cache, nMutations, hist, commitAt>>

\* A get_project that hands cache.set the entity after the caller's operation was
\* applied to it in memory.
svc_cache_set_after_operation(c, Faults) ==
    /\ UNCHANGED <<scopeVars, otherVars>>
    /\ calls[c].pc = "cache_set"
    /\ \E fault \in Faults :
         LET d == IF calls[c].op = "get" THEN calls[c].ent[1]
                  ELSE entity_apply(calls[c].op, calls[c].ent[1], calls[c].arg)
             call == [calls[c] EXCEPT !.setArg = Some(d), !.faults = @ \cup ({fault} \ {"none"})]
         IN /\ cache' = cache_set(cache, call.id, d, call.seen, fault)
            /\ IF call.op = "get" THEN Return(c, call, "ok") ELSE Goto(c, call, "mutate")
    /\ UNCHANGED <<db, nextId, nMutations, hist, commitAt>>

\* get_project on a miss, continued: cache.set(cache_key, project.__dict__),
\* then the entity is returned (to the caller, or to the method that mutates).
svc_cache_set(c, Faults) ==
    /\ UNCHANGED <<scopeVars, otherVars>>
    /\ calls[c].pc = "cache_set"
    /\ \E fault \in Faults :
         LET d == calls[c].ent[1]
             call == [calls[c] EXCEPT !.setArg = Some(d), !.faults = @ \cup ({fault} \ {"none"})]
         IN /\ cache' = cache_set(cache, call.id, d, call.seen, fault)
            /\ IF cache_set_raises(fault) THEN Return(c, call, RedisError)
               ELSE IF call.op = "get" THEN Return(c, call, "ok")
               ELSE Goto(c, call, "mutate")
    /\ UNCHANGED <<db, nextId, nMutations, hist, commitAt>>

\* The transaction isolation of the store. The session's transaction begins
\* with the SELECT of get_by_id; save() runs its own SELECT in the same
\* transaction. Under REPEATABLE READ (the default of the configured MySQL
\* store) that SELECT returns the rows as the first one saw them; under
\* READ COMMITTED (and on SQLite) it returns the rows as last committed.
RepeatableRead == "REPEATABLE READ"
ReadCommitted == "READ COMMITTED"
IsolationLevels == {RepeatableRead, ReadCommitted}

\* The entity operation and repository.save(project): the operation's error
\* propagates; save raises ProjectNotFoundError when no live row has the id,
\* else it updates the row and commits.
svc_save(c, Isolation) ==
    /\ UNCHANGED <<scopeVars, otherVars>>
    /\ calls[c].pc = "mutate"
    /\ LET call == calls[c]
           id == call.id
           e == call.ent[1]
           project == entity_apply(call.op, e, call.arg)
       IN IF entity_raises(call.op, e, call.arg)
          THEN /\ Return(c, [call EXCEPT !.ent = Some(project)], entity_error(call.op))
               /\ UNCHANGED <<db, hist, commitAt>>
          ELSE IF query_live(db, id) = Absent
          THEN /\ Return(c, call, ProjectNotFoundError)
               /\ UNCHANGED <<db, hist, commitAt>>
          ELSE \E level \in Isolation :
               LET loaded == IF level = RepeatableRead /\ call.loaded # Absent
                             THEN call.loaded[1] ELSE db[id][1]
                   row == flush_update(db[id][1], loaded, project)
               IN /\ db' = [db EXCEPT ![id] = Some(row)]
                  /\ hist' = [hist EXCEPT ![id] = Append(@, Some(row))]
                  /\ commitAt' = [commitAt EXCEPT ![id] = Append(@, clock)]
                  /\ Goto(c, [call EXCEPT !.ent = Some(to_domain(id, row)),
                                          !.loaded = Some(row), !.wrote = ver(id) + 1],
                          "inval_project")
    /\ UNCHANGED <<nextId, cache, nMutations>>

\* The same on the configured MySQL store.
svc_mutate(c) == svc_save(c, {RepeatableRead})

\* await invalidate_project_cache(project_id)
svc_inval_project(c, Faults) ==
    /\ UNCHANGED <<scopeVars, otherVars>>
    /\ calls[c].pc = "inval_project"
    /\ \E fault \in Faults :
         LET keys == IF fault = "none" THEN invalidate_project_cache(calls[c].id) ELSE {}
             call == [calls[c] EXCEPT !.inval = @ \cup keys,
                                      !.faults = @ \cup ({fault} \ {"none"})]
         IN /\ cache' = cache_delete(cache, keys, fault)
            /\ IF cache_delete_raises(fault) THEN Return(c, call, RedisError)
               ELSE Goto(c, call, "inval_list")
    /\ UNCHANGED <<db, nextId, nMutations, hist, commitAt>>

\* await invalidate_projects_list_cache(), after which the method returns.
svc_inval_list(c, Faults) ==
    /\ UNCHANGED <<scopeVars, otherVars>>
    /\ calls[c].pc = "inval_list"
    /\ \E fault \in Faults :
         LET keys == IF fault = "none" THEN invalidate_projects_list_cache ELSE {}
             call == [calls[c] EXCEPT !.inval = @ \cup keys,
                                      !.faults = @ \cup ({fault} \ {"none"})]
         IN /\ cache' = cache_delete(cache, keys, fault)
            /\ Return(c, call, IF cache_delete_raises(fault) THEN RedisError ELSE "ok")
    /\ UNCHANGED <<db, nextId, nMutations, hist, commitAt>>

\* create_project up to the end of repository.save: the name check, the
\* entity's date check, the insert and its commit.
svc_create(c) ==
    /\ UNCHANGED <<scopeVars, otherVars>>
    /\ Free(c)
    /\ nMutations < MaxMutations
    /\ nextId <= MaxProjects
    /\ nMutations' = nMutations + 1
    /\ \E arg \in ArgsOf("create") :
         LET call == [Idle EXCEPT !.op = "create", !.arg = arg, !.started = clock]
             project == [Project(strip(arg.name)) EXCEPT !.end_date_planned = arg.date]
         IN IF arg.name = "" \/ strip(arg.name) = "" \/ validate_dates_raises(project)
            THEN /\ Return(c, call, BusinessRuleViolationError)
                 /\ UNCHANGED <<db, nextId, hist, commitAt>>
            ELSE LET row == to_orm(project)
                 IN /\ db' = [db EXCEPT ![nextId] = Some(row)]
                    /\ nextId' = nextId + 1
                    /\ hist' = [hist EXCEPT ![nextId] = Append(@, Some(row))]
                    /\ commitAt' = [commitAt EXCEPT ![nextId] = Append(@, clock)]
                    /\ Goto(c, [call EXCEPT !.id = nextId,
                                            !.ent = Some(to_domain(nextId, row)),
                                            !.loaded = Some(row), !.wrote = ver(nextId) + 1],
                            "inval_list")
    /\ UNCHANGED cache

\* delete_project up to the end of repository.delete: the physical delete of
\* the row whatever its deleted_at, False when no row has the id.
svc_delete(c) ==
    /\ UNCHANGED <<scopeVars, otherVars>>
    /\ Free(c)
    /\ nMutations < MaxMutations
    /\ nMutations' = nMutations + 1
    /\ \E id \in ProjectIds :
         LET call == [Idle EXCEPT !.op = "delete", !.id = id, !.started = clock]
         IN IF db[id] = Absent
            THEN /\ Return(c, call, "False")
                 /\ UNCHANGED <<db, hist, commitAt>>
            ELSE /\ db' = [db EXCEPT ![id] = Absent]
                 /\ hist' = [hist EXCEPT ![id] = Append(@, Absent)]
                 /\ commitAt' = [commitAt EXCEPT ![id] = Append(@, clock)]
                 /\ Goto(c, [call EXCEPT !.wrote = ver(id) + 1], "inval_project")
    /\ UNCHANGED <<nextId, cache>>

\* The service on a table that already holds project 1, as an earlier
\* create_project left it; no unit-of-work scope is in use.
InitSvc ==
    /\ db = [i \in ProjectIds |-> IF i = 1 THEN Some(to_orm(Project("a"))) ELSE Absent]
    /\ nextId = 2
    /\ sessions = [s \in SessionIds |-> NewSession]
    /\ nextSession = 1
    /\ uow_session = NoSession
    /\ uow_projects = NoSession
    /\ inScope = FALSE
    /\ fate = [i \in ProjectIds |-> "none"]
    /\ lastOp = Op("init", "ok", NoSession, NoId, TRUE)
    /\ InitCalls
    /\ OtherIdle

\* Concurrent callers of the service, their steps interleaved in any order,
\* with a cache backend that is up.
NextSvc ==
    \E c \in Callers :
        \/ svc_call(c, {"none"})
        \/ svc_db_get(c)
        \/ svc_cache_set(c, {"none"})
        \/ svc_mutate(c)
        \/ svc_inval_project(c, {"none"})
        \/ svc_inval_list(c, {"none"})
        \/ svc_create(c)
        \/ svc_delete(c)

SpecSvc == InitSvc /\ [][NextSvc]_vars

\* One caller making one call after the other, with a cache backend that can
\* fail in any of its calls.
NextSvcDegraded ==
    \/ svc_call(1, CacheFaults)
    \/ svc_db_get(1)
    \/ svc_cache_set(1, CacheFaults \ {"undecodable"})
    \/ svc_mutate(1)
    \/ svc_inval_project(1, CacheFaults \ {"undecodable"})
    \/ svc_inval_list(1, CacheFaults \ {"undecodable"})
    \/ svc_create(1)
    \/ svc_delete(1)

SpecSvcDegraded == InitSvc /\ [][NextSvcDegraded]_vars

\* Time passes.
tick ==
    /\ clock < MaxClock
    /\ clock' = clock + 1
    /\ UNCHANGED <<uowVars, svcVars, entVars, pageVars, delVars, scenVars, cmpVars>>

\* Two callers at a time reading and writing project 1, a clock, and
\* invalidations that can fail.
NextSvcTtl ==
    \/ tick
    \/ \E c \in {1, 2} :
          \/ svc_call_1(c, {"none"})
          \/ svc_db_get(c)
          \/ svc_cache_set(c, {"none"})
          \/ svc_mutate(c)
          \/ svc_inval_project(c, {"none", "unreachable"})
          \/ svc_inval_list(c, {"none", "unreachable"})

SpecSvcTtl == InitSvc /\ [][NextSvcTtl]_vars

\* update_project calls that each change one field of project 1: the name, or
\* the planned end date.
MaxWriters == 2
WriterArgs ==
    {[NoArg EXCEPT !.name = "b"], [NoArg EXCEPT !.name = "c"], [NoArg EXCEPT !.date = LateDate]}
svc_update_1(c) ==
    svc_start(c, {"update"}, {1}, [op \in {"update"} |-> WriterArgs], {"none"}, MaxWriters)

\* Two callers at a time updating project 1, on a store of either isolation
\* level.
NextSvcWriters ==
    \E c \in {1, 2} :
        \/ svc_update_1(c)
        \/ svc_db_get(c)
        \/ svc_cache_set(c, {"none"})
        \/ svc_save(c, IsolationLevels)
        \/ svc_inval_project(c, {"none"})
        \/ svc_inval_list(c, {"none"})

SpecSvcWriters == InitSvc /\ [][NextSvcWriters]_vars

\* start_project, pause_project, complete_project, cancel_project or
\* update_project on project 1.
svc_change_1(c) ==
    svc_start(c, {"start", "pause", "complete", "cancel", "update"}, {1},
              [op \in {"start", "pause", "complete", "cancel", "update"} |-> ArgsOf(op)],
              {"none"}, MaxWriters)

\* Two callers at a time changing project 1, on a store of either isolation
\* level.
NextSvcRace ==
    \E c \in {1, 2} :
        \/ svc_change_1(c)
        \/ svc_db_get(c)
        \/ svc_cache_set(c, {"none"})
        \/ svc_save(c, IsolationLevels)
        \/ svc_inval_project(c, {"none"})
        \/ svc_inval_list(c, {"none"})

SpecSvcRace == InitSvc /\ [][NextSvcRace]_vars

\* ------------------------------------------------------ cursor pagination
RowIds == 1..MaxRows

\* query.order_by(ORMProject.id) over the rows whose ids are in S: the ids
\* (positive integers) from the least to the greatest.
order_by_id(S) ==
    IF S = {} THEN << >>
    ELSE LET greatest == CHOOSE i \in S : \A j \in S : j <= i
             selected(i) == i \in S
         IN SelectSeq([i \in 1..greatest |-> i], selected)

\* .limit(n).all() and the slice [:n]
first_n(seq, n) == SubSeq(seq, 1, IF Len(seq) < n THEN Len(seq) ELSE n)

\* A keyset filter that keeps the cursor's own row.
after_cursor_inclusive(id, cursor) == cursor # Absent => id >= cursor[1]

\* A query that leaves the keyset filter out.
after_cursor_ignored(id, cursor) == TRUE

\* if cursor is not None: query.filter(ORMProject.id > cursor)
after_cursor(id, cursor) == cursor # Absent => id > cursor[1]

\* The filters of get_with_cursor on a row that is not soft-deleted:
\* `if status:` and `if client_id:` skip a filter that is None (or 0).
matches_filters(row, status, client_id) ==
    /\ row.deleted_at = None
    /\ status # None => row.status = status
    /\ client_id # NoId => row.cliente_id = client_id

\* A get_with_cursor that fetches limit rows and takes a full page as the
\* sign that more rows follow.
get_with_cursor_without_lookahead(table, cursor, limit, status, client_id) ==
    LET selected == {i \in DOMAIN table :
                       /\ table[i] # Absent
                       /\ matches_filters(table[i][1], status, client_id)
                       /\ after_cursor(i, cursor)}
        orm_projects == first_n(order_by_id(selected), limit)
        next_cursor == IF Len(orm_projects) = limit /\ orm_projects # << >>
                       THEN Some(orm_projects[Len(orm_projects)]) ELSE Absent
    IN [projects |-> [k \in 1..Len(orm_projects) |->
                         to_domain(orm_projects[k], table[orm_projects[k]][1])],
        next_cursor |-> next_cursor]

\* SQLAlchemyProjectRepository.get_with_cursor: limit + 1 rows are fetched to
\* learn whether a next page exists; the extra one is trimmed and the id of
\* the last row kept is the next cursor.
get_with_cursor(table, cursor, limit, status, client_id) ==
    LET selected == {i \in DOMAIN table :
                       /\ table[i] # Absent
                       /\ matches_filters(table[i][1], status, client_id)
                       /\ after_cursor(i, cursor)}
        fetched == first_n(order_by_id(selected), limit + 1)
        has_next == Len(fetched) > limit
        orm_projects == IF has_next THEN first_n(fetched, limit) ELSE fetched
        next_cursor == IF has_next /\ orm_projects # << >>
                       THEN Some(orm_projects[Len(orm_projects)]) ELSE Absent
    IN [projects |-> [k \in 1..Len(orm_projects) |->
                         to_domain(orm_projects[k], table[orm_projects[k]][1])],
        next_cursor |-> next_cursor]

\* ProjectService.list_projects_cursor
list_projects_cursor(table, cursor, limit, status, client_id) ==
    get_with_cursor(table, cursor, IF limit < MaxPageSize THEN limit ELSE MaxPageSize,
                    status, client_id)

\* The page sizes and filters a client asks for.
Limits == (1..MaxLimit) \cup {MaxPageSize + 1}
StatusFilters == {None, PLANEJAMENTO}
ClientFilters == {NoId, 1}

\* The client keeps the page and the cursor it was handed. History: after is
\* the cursor the call was made with, page the rows of this call.
Paged(l, page) ==
    [l EXCEPT !.pc = IF page.next_cursor = Absent THEN "done" ELSE "paging",
              !.after = l.cursor,
              !.cursor = page.next_cursor,
              !.page = page.projects,
              !.items = @ \o page.projects,
              !.pages = @ + 1]

\* The first call, with no cursor. History: present is the set of live
\* matching rows that have been in the table since the traversal began.
list_first ==
    /\ listing.pc = "idle"
    /\ \E limit \in Limits, status \in StatusFilters, client_id \in ClientFilters :
         LET l == [ListIdle EXCEPT
                      !.limit = limit, !.status = status, !.client_id = client_id,
                      !.present = {i \in DOMAIN db :
                                      /\ db[i] # Absent
                                      /\ matches_filters(db[i][1], status, client_id)}]
         IN listing' = Paged(l, list_projects_cursor(db, Absent, limit, status, client_id))
    /\ UNCHANGED <<uowVars, svcVars, entVars, clock, delVars, scenVars, cmpVars, offsetOp>>

\* A client that pages by offset: it skips as many rows as it has got.
list_next_by_offset ==
    /\ listing.pc = "paging"
    /\ LET selected == {i \in DOMAIN db :
                          /\ db[i] # Absent
                          /\ matches_filters(db[i][1], listing.status, listing.client_id)}
           ordered == order_by_id(selected)
           skip == Len(listing.items)
           limit == IF listing.limit < MaxPageSize THEN listing.limit ELSE MaxPageSize
           last == IF skip + limit < Len(ordered) THEN skip + limit ELSE Len(ordered)
           ids == SubSeq(ordered, skip + 1, last)
           page == [projects |-> [k \in 1..Len(ids) |-> to_domain(ids[k], db[ids[k]][1])],
                    next_cursor |-> IF Len(ids) = limit THEN Some(ids[Len(ids)]) ELSE Absent]
       IN listing' = Paged(listing, page)
    /\ UNCHANGED <<uowVars, svcVars, entVars, clock, delVars, scenVars, cmpVars, offsetOp>>

\* The next call, with the nextCursor of the page before and the same filters.
list_next ==
    /\ listing.pc = "paging"
    /\ listing' = Paged(listing, list_projects_cursor(db, listing.cursor, listing.limit,
                                                       listing.status, listing.client_id))
    /\ UNCHANGED <<uowVars, svcVars, entVars, clock, delVars, scenVars, cmpVars, offsetOp>>

\* Any table of at most MaxRows rows: a row is absent, soft-deleted, or live
\* with one of two statuses and one of two clients.
TableRows ==
    {Absent} \cup
    {Some([to_orm(Project("a")) EXCEPT !.deleted_at = d]) : d \in {Now}} \cup
    {Some([to_orm(Project("a")) EXCEPT !.status = st]) : st \in {PLANEJAMENTO, EM_ANDAMENTO}} \cup
    {Some([to_orm(Project("a")) EXCEPT !.cliente_id = 2])}

InitList ==
    /\ db \in [RowIds -> TableRows]
    /\ nextId = MaxRows + 1
    /\ sessions = [s \in SessionIds |-> NewSession]
    /\ nextSession = 1
    /\ uow_session = NoSession
    /\ uow_projects = NoSession
    /\ inScope = FALSE
    /\ fate = [i \in ProjectIds |-> "none"]
    /\ lastOp = Op("init", "ok", NoSession, NoId, TRUE)
    /\ InitCalls
    /\ OtherIdle

\* A client pages through a table nothing else writes to.
NextList ==
    \/ list_first
    \/ list_next

SpecList == InitList /\ [][NextList]_vars

\* Any table of at most MaxRows rows, each gone, live or soft-deleted.
InitListPlain ==
    /\ db \in [RowIds -> {Absent, Some(to_orm(Project("a"))),
                           Some([to_orm(Project("a")) EXCEPT !.deleted_at = Now])}]
    /\ nextId = MaxRows + 1
    /\ sessions = [s \in SessionIds |-> NewSession]
    /\ nextSession = 1
    /\ uow_session = NoSession
    /\ uow_projects = NoSession
    /\ inScope = FALSE
    /\ fate = [i \in ProjectIds |-> "none"]
    /\ lastOp = Op("init", "ok", NoSession, NoId, TRUE)
    /\ InitCalls
    /\ OtherIdle

\* A client pages through such a table and, while it holds a nextCursor, goes
\* on to make the next call.
SpecListFair == InitListPlain /\ [][NextList]_vars /\ WF_vars(list_next)

\* The cursors and page sizes a single call can be made with: no cursor, the
\* id of any row or of none, and any size from 0.
CursorArgs == {Absent} \cup {Some(i) : i \in 0..MaxRows}
PageLimits == 0..MaxLimit

\* repository.get_with_cursor(cursor, limit, status, client_id), one call.
repo_get_with_cursor ==
    /\ listing.pc = "idle"
    /\ \E cursor \in CursorArgs, limit \in PageLimits,
          status \in StatusFilters, client_id \in ClientFilters :
         LET page == get_with_cursor(db, cursor, limit, status, client_id)
         IN listing' = [ListIdle EXCEPT !.pc = "page", !.limit = limit, !.status = status,
                                        !.client_id = client_id, !.after = cursor,
                                        !.cursor = page.next_cursor, !.page = page.projects,
                                        !.items = page.projects, !.pages = 1]
    /\ UNCHANGED <<uowVars, svcVars, entVars, clock, delVars, scenVars, cmpVars, offsetOp>>

NextPage == repo_get_with_cursor

\* Another caller's create_project commits: a live row under the next id.
other_insert ==
    /\ nMutations < MaxWriters
    /\ nextId \in DOMAIN db
    /\ db' = save_create(db, nextId, Project("a"))
    /\ nextId' = nextId + 1
    /\ nMutations' = nMutations + 1
    /\ UNCHANGED listing
    /\ UNCHANGED <<sessions, nextSession, uow_session, uow_projects, inScope, fate, lastOp>>
    /\ UNCHANGED <<cache, calls, lastRet, retVer, hist, commitAt>>
    /\ UNCHANGED <<entVars, clock, delVars, scenVars, cmpVars, offsetOp>>

\* Another caller's delete_project commits: the row is gone.
other_delete ==
    /\ nMutations < MaxWriters
    /\ \E id \in DOMAIN db :
         /\ db[id] # Absent
         /\ db' = [db EXCEPT ![id] = Absent]
         /\ listing' = [listing EXCEPT !.present = @ \ {id}]
    /\ nMutations' = nMutations + 1
    /\ UNCHANGED <<nextId, sessions, nextSession, uow_session, uow_projects, inScope, fate,
                   lastOp>>
    /\ UNCHANGED <<cache, calls, lastRet, retVer, hist, commitAt>>
    /\ UNCHANGED <<entVars, clock, delVars, scenVars, cmpVars, offsetOp>>

\* A table whose ids up to some n have been given out: each of these rows is
\* gone, soft-deleted or live; the ids above n are free.
InitListWrites ==
    /\ \E n \in 0..MaxRows :
         /\ db \in [RowIds -> {Absent, Some(to_orm(Project("a"))),
                                Some([to_orm(Project("a")) EXCEPT !.deleted_at = Now])}]
         /\ \A i \in RowIds : i > n => db[i] = Absent
         /\ nextId = n + 1
    /\ sessions = [s \in SessionIds |-> NewSession]
    /\ nextSession = 1
    /\ uow_session = NoSession
    /\ uow_projects = NoSession
    /\ inScope = FALSE
    /\ fate = [i \in ProjectIds |-> "none"]
    /\ lastOp = Op("init", "ok", NoSession, NoId, TRUE)
    /\ InitCalls
    /\ OtherIdle

\* A client pages through a table while other callers insert and delete.
NextListWrites ==
    \/ list_first
    \/ list_next
    \/ other_insert
    \/ other_delete

SpecListWrites == InitListWrites /\ [][NextListWrites]_vars

SpecPage == InitList /\ [][NextPage]_vars

\* ------------------------------------------------------- offset listing
\* The responsible_id filter of get_all: the project's responsible user, or
\* one of its contributors.
responsible_matches(i, row, responsible_id) ==
    \/ row.responsavel_id = responsible_id
    \/ \E r \in tables.project_contributors :
          r.project_id = i /\ r.user_id = responsible_id

\* SQLAlchemyProjectRepository.get_all: the live rows that pass the filters
\* (a filter that is None or 0 is skipped), .offset(skip).limit(limit), in the
\* order of the primary key.
get_all(table, skip, limit, status, client_id, responsible_id) ==
    LET selected == {i \in DOMAIN table :
                       /\ table[i] # Absent
                       /\ matches_filters(table[i][1], status, client_id)
                       /\ responsible_id # NoId =>
                              responsible_matches(i, table[i][1], responsible_id)}
        ordered == order_by_id(selected)
        last == IF skip + limit < Len(ordered) THEN skip + limit ELSE Len(ordered)
    IN SubSeq(ordered, skip + 1, last)

\* ProjectService.list_projects: limit = min(limit, 100)
list_projects(table, skip, limit, status, client_id, responsible_id) ==
    get_all(table, skip, IF limit < MaxPageSize THEN limit ELSE MaxPageSize,
            status, client_id, responsible_id)

\* SQLAlchemyProjectRepository.get_by_client / get_active_projects
get_by_client(table, client_id) == get_all(table, 0, ReportLimit, None, client_id, NoId)
get_active_projects(table) == get_all(table, 0, ReportLimit, EM_ANDAMENTO, NoId, NoId)

\* The call and the ids of the projects it returned.
OffsetOp(via, skip, limit, status, client_id, responsible_id, returned) ==
    [via |-> via, skip |-> skip, limit |-> limit, status |-> status, client_id |-> client_id,
     responsible_id |-> responsible_id, returned |-> returned]

\* service.list_projects(skip, limit, status, client_id, responsible_id)
svc_list_projects ==
    /\ \E skip \in {0, 1, MaxPageSize}, limit \in {1, MaxPageSize, MaxPageSize + 1, ReportLimit},
          status \in {None, EM_ANDAMENTO}, client_id \in {NoId, 1}, responsible_id \in {NoId, 2} :
         offsetOp' = OffsetOp("list_projects", skip, limit, status, client_id, responsible_id,
                              list_projects(db, skip, limit, status, client_id, responsible_id))
    /\ UNCHANGED <<uowVars, svcVars, entVars, clock, delVars, scenVars, cmpVars, listing>>

\* service.get_client_projects(client_id): repository.get_by_client
svc_get_client_projects ==
    /\ \E client_id \in {1, 2} :
         offsetOp' = OffsetOp("get_client_projects", 0, ReportLimit, None, client_id, NoId,
                              get_by_client(db, client_id))
    /\ UNCHANGED <<uowVars, svcVars, entVars, clock, delVars, scenVars, cmpVars, listing>>

\* service.get_active_projects(): repository.get_active_projects
svc_get_active_projects ==
    /\ offsetOp' = OffsetOp("get_active_projects", 0, ReportLimit, EM_ANDAMENTO, NoId, NoId,
                            get_active_projects(db))
    /\ UNCHANGED <<uowVars, svcVars, entVars, clock, delVars, scenVars, cmpVars, listing>>

\* A table of two rows more than the cap: project 1 in planning for client 2
\* with user 2 as a contributor, the others running for client 1; the first
\* `live` rows are live, the others soft-deleted.
BigTableIds == 1..(MaxPageSize + 2)
BigTable(live) ==
    [i \in BigTableIds |->
        Some([to_orm(Project("a")) EXCEPT
                 !.status = IF i = 1 THEN PLANEJAMENTO ELSE EM_ANDAMENTO,
                 !.cliente_id = IF i = 1 THEN 2 ELSE 1,
                 !.deleted_at = IF i <= live THEN None ELSE Now])]

InitOffset ==
    /\ \E live \in {0, 2, MaxPageSize, MaxPageSize + 1, MaxPageSize + 2} : db = BigTable(live)
    /\ tables = [NoRows EXCEPT !.project_contributors = {[project_id |-> 1, user_id |-> 2]}]
    /\ delOp = NoDelOp
    /\ nextId = MaxPageSize + 3
    /\ sessions = [s \in SessionIds |-> NewSession]
    /\ nextSession = 1
    /\ uow_session = NoSession
    /\ uow_projects = NoSession
    /\ inScope = FALSE
    /\ fate = [i \in ProjectIds |-> "none"]
    /\ lastOp = Op("init", "ok", NoSession, NoId, TRUE)
    /\ InitCalls
    /\ EntityIdle /\ clock = 0 /\ PagesIdle /\ RestIdle

NextOffset ==
    \/ svc_list_projects
    \/ svc_get_client_projects
    \/ svc_get_active_projects

SpecOffset == InitOffset /\ [][NextOffset]_vars

\* ----------------------------------------------------- repository reads
\* get_overdue_projects: status EM_ANDAMENTO, data_fim_prevista < today (a
\* NULL date is below nothing), deleted_at IS NULL.
get_overdue_projects(table) ==
    order_by_id({i \in DOMAIN table :
                    /\ table[i] # Absent
                    /\ table[i][1].status = EM_ANDAMENTO
                    /\ table[i][1].data_fim_prevista # NoDate
                    /\ table[i][1].data_fim_prevista < Today
                    /\ table[i][1].deleted_at = None})

\* A count that leaves deleted_at out of its filter.
count_by_status_with_deleted(table, status) ==
    Cardinality({i \in DOMAIN table : table[i] # Absent /\ table[i][1].status = status})

\* count_by_status: status = :status AND deleted_at IS NULL, counted.
count_by_status(table, status) ==
    Cardinality({i \in DOMAIN table :
                    /\ table[i] # Absent
                    /\ table[i][1].status = status
                    /\ table[i][1].deleted_at = None})

\* exists: get_by_id(project_id) is not None
exists(table, id) == query_live(table, id) # Absent

\* A read and what it gave: the ids of the projects returned, the count, the
\* answer of exists.
ReadOp(via, id, status, returned, count, found) ==
    [via |-> via, id |-> id, status |-> status, returned |-> returned, count |-> count,
     found |-> found]

ReadIds == 0..(MaxProjects + 1)

read_get_by_id ==
    /\ \E id \in ReadIds :
         LET project == query_live(db, id)
         IN offsetOp' = ReadOp("get_by_id", id, None,
                               IF project = Absent THEN << >> ELSE << project[1].id >>,
                               0, FALSE)
    /\ UNCHANGED <<uowVars, svcVars, entVars, clock, delVars, scenVars, cmpVars, listing>>

read_get_all ==
    /\ \E skip \in 0..1, limit \in 1..MaxProjects, status \in {None, EM_ANDAMENTO} :
         offsetOp' = ReadOp("get_all", NoId, status,
                            get_all(db, skip, limit, status, NoId, NoId), 0, FALSE)
    /\ UNCHANGED <<uowVars, svcVars, entVars, clock, delVars, scenVars, cmpVars, listing>>

read_get_with_cursor ==
    /\ \E cursor \in {Absent, Some(1)}, limit \in 1..MaxProjects, status \in {None, EM_ANDAMENTO} :
         LET page == get_with_cursor(db, cursor, limit, status, NoId).projects
         IN offsetOp' = ReadOp("get_with_cursor", NoId, status,
                               [k \in 1..Len(page) |-> page[k].id], 0, FALSE)
    /\ UNCHANGED <<uowVars, svcVars, entVars, clock, delVars, scenVars, cmpVars, listing>>

read_get_overdue_projects ==
    /\ offsetOp' = ReadOp("get_overdue_projects", NoId, EM_ANDAMENTO,
                          get_overdue_projects(db), 0, FALSE)
    /\ UNCHANGED <<uowVars, svcVars, entVars, clock, delVars, scenVars, cmpVars, listing>>

read_count_by_status ==
    /\ \E status \in {PLANEJAMENTO, EM_ANDAMENTO} :
         offsetOp' = ReadOp("count_by_status", NoId, status, << >>,
                            count_by_status(db, status), FALSE)
    /\ UNCHANGED <<uowVars, svcVars, entVars, clock, delVars, scenVars, cmpVars, listing>>

read_exists ==
    /\ \E id \in ReadIds :
         offsetOp' = ReadOp("exists", id, None, << >>, 0, exists(db, id))
    /\ UNCHANGED <<uowVars, svcVars, entVars, clock, delVars, scenVars, cmpVars, listing>>

\* The rows a table can hold: in planning or running, with or without a
\* planned end date that has passed, live or soft-deleted.
ReadRows ==
    {Some([to_orm(Project("a")) EXCEPT !.status = st, !.data_inicio = FirstDate,
                                        !.data_fim_prevista = d, !.deleted_at = del]) :
        st \in {PLANEJAMENTO, EM_ANDAMENTO}, d \in {NoDate, EarlyDate}, del \in {None, Now}}

InitReads ==
    /\ db \in [ProjectIds -> ReadRows \cup {Absent}]
    /\ nextId = MaxProjects + 1
    /\ sessions = [s \in SessionIds |-> NewSession]
    /\ nextSession = 1
    /\ uow_session = NoSession
    /\ uow_projects = NoSession
    /\ inScope = FALSE
    /\ fate = [i \in ProjectIds |-> "none"]
    /\ lastOp = Op("init", "ok", NoSession, NoId, TRUE)
    /\ InitCalls
    /\ OtherIdle

NextReads ==
    \/ read_get_by_id
    \/ read_get_all
    \/ read_get_with_cursor
    \/ read_get_overdue_projects
    \/ read_count_by_status
    \/ read_exists

SpecReads == InitReads /\ [][NextReads]_vars

\* ---------------------------------------------------------- hard delete
\* The store as one transaction sees it: projetos and the tables below it.
Store == [projetos |-> db] @@ tables

\* 1. DELETE FROM project_contributors WHERE project_id = :pid
delete_contributors(t, pid) ==
    [t EXCEPT !.project_contributors = {r \in @ : r.project_id # pid}]

\* SELECT id FROM checkins WHERE projeto_id = :pid
checkins_of(t, pid) == {c.id : c \in {r \in t.checkins : r.projeto_id = pid}}

\* 2. DELETE FROM anexos WHERE checkin_id IN (SELECT id FROM checkins ...)
delete_attachments(t, pid) ==
    [t EXCEPT !.anexos = {r \in @ : r.checkin_id \notin checkins_of(t, pid)}]

\* 3. DELETE FROM tarefas_executadas WHERE checkin_id IN (SELECT id FROM checkins ...)
delete_executed_tasks(t, pid) ==
    [t EXCEPT !.tarefas_executadas = {r \in @ : r.checkin_id \notin checkins_of(t, pid)}]

\* 4. DELETE FROM checkins WHERE projeto_id = :pid
delete_checkins(t, pid) ==
    [t EXCEPT !.checkins = {r \in @ : r.projeto_id # pid}]

\* SELECT id FROM sprints WHERE project_id = :pid
sprints_of(t, pid) == {x.id : x \in {r \in t.sprints : r.project_id = pid}}

\* 5. DELETE FROM sprint_tasks WHERE sprint_id IN (SELECT id FROM sprints ...)
delete_sprint_tasks(t, pid) ==
    [t EXCEPT !.sprint_tasks = {r \in @ : r.sprint_id \notin sprints_of(t, pid)}]

\* 6. DELETE FROM sprints WHERE project_id = :pid
delete_sprints(t, pid) ==
    [t EXCEPT !.sprints = {r \in @ : r.project_id # pid}]

\* A cleanup of the audit log by record id alone.
delete_audit_logs_of_any_table(t, pid) ==
    [t EXCEPT !.logs_auditoria = {r \in @ : r.registro_id # pid}]

\* 7. DELETE FROM logs_auditoria WHERE tabela = 'projetos' AND registro_id = :pid
delete_audit_logs(t, pid) ==
    [t EXCEPT !.logs_auditoria = {r \in @ : ~(r.tabela = "projetos" /\ r.registro_id = pid)}]

\* 8. DELETE FROM projetos WHERE id = :pid, and its rowcount
delete_project_record(t, pid) ==
    [t EXCEPT !.projetos = [@ EXCEPT ![pid] = Absent]]
rowcount(t, pid) == IF t.projetos[pid] # Absent THEN 1 ELSE 0

NStatements == 8

\* The same statements with the checkins deleted before what hangs on them.
delete_statement_checkins_first(k, t, pid) ==
    CASE k = 1 -> delete_contributors(t, pid)
      [] k = 2 -> delete_checkins(t, pid)
      [] k = 3 -> delete_attachments(t, pid)
      [] k = 4 -> delete_executed_tasks(t, pid)
      [] k = 5 -> delete_sprint_tasks(t, pid)
      [] k = 6 -> delete_sprints(t, pid)
      [] k = 7 -> delete_audit_logs(t, pid)
      [] k = 8 -> delete_project_record(t, pid)

\* The statements of delete(), in the order the code issues them.
delete_statement(k, t, pid) ==
    CASE k = 1 -> delete_contributors(t, pid)
      [] k = 2 -> delete_attachments(t, pid)
      [] k = 3 -> delete_executed_tasks(t, pid)
      [] k = 4 -> delete_checkins(t, pid)
      [] k = 5 -> delete_sprint_tasks(t, pid)
      [] k = 6 -> delete_sprints(t, pid)
      [] k = 7 -> delete_audit_logs(t, pid)
      [] k = 8 -> delete_project_record(t, pid)

\* The foreign keys of the models: a statement that would leave a row whose
\* parent is gone is refused by the store.
fk_violation(t) ==
    \/ \E r \in t.project_contributors : t.projetos[r.project_id] = Absent
    \/ \E r \in t.checkins : t.projetos[r.projeto_id] = Absent
    \/ \E r \in t.sprints : t.projetos[r.project_id] = Absent
    \/ \E r \in t.anexos \cup t.tarefas_executadas :
          r.checkin_id \notin {c.id : c \in t.checkins}
    \/ \E r \in t.sprint_tasks : r.sprint_id \notin {x.id : x \in t.sprints}

\* The statements from the k-th on, in the session's transaction: statement
\* failAt raises (the store is unreachable, a lock times out), and so does a
\* statement that a foreign key refuses. Yields the pending state and the
\* statement that raised (0: none).
RECURSIVE execute(_, _, _, _)
execute(t, pid, k, failAt) ==
    IF k > NStatements THEN [pending |-> t, raisedAt |-> 0]
    ELSE IF k = failAt \/ fk_violation(delete_statement(k, t, pid))
    THEN [pending |-> t, raisedAt |-> k]
    ELSE execute(delete_statement(k, t, pid), pid, k + 1, failAt)

\* A handler that keeps what the transaction had done when it failed.
tx_keep_pending(committed, pending) == pending

\* session.rollback(): the store is as last committed.
tx_rollback(committed, pending) == committed

\* session.commit(): the pending state is the committed one.
tx_commit(committed, pending) == pending

\* SQLAlchemyProjectRepository.delete(project_id). failAt is the statement
\* that raises: 1..8 one of the DELETEs, 9 the commit, 0 none. An exception
\* is answered by session.rollback() and RepositoryError; rowcount 0 of the
\* last DELETE returns False with neither commit nor rollback: the session's
\* transaction stays open (tx) with what the statements did pending in it.
repo_delete ==
    /\ \E pid \in ProjectIds, failAt \in 0..(NStatements + 1) :
         LET before == Store
             ran == execute(before, pid, 1, failAt)
             found == rowcount(before, pid) # 0
             raisedAt == IF ran.raisedAt # 0 THEN ran.raisedAt
                         ELSE IF found /\ failAt = NStatements + 1 THEN failAt ELSE 0
             after == IF raisedAt # 0 THEN tx_rollback(before, ran.pending)
                      ELSE IF ~found THEN before
                      ELSE tx_commit(before, ran.pending)
         IN /\ failAt = NStatements + 1 => found
            /\ db' = after.projetos
            /\ tables' = [n \in DOMAIN tables |-> after[n]]
            /\ delOp' = [id |-> pid,
                          res |-> IF raisedAt # 0 THEN RepositoryError
                                  ELSE IF found THEN "True" ELSE "False",
                          raisedAt |-> raisedAt, before |-> before, pending |-> ran.pending,
                          tx |-> IF raisedAt = 0 /\ ~found THEN "open" ELSE "none"]
    /\ UNCHANGED <<nextId, sessions, nextSession, uow_session, uow_projects, inScope, fate,
                   lastOp, svcVars, entVars, clock, pageVars, scenVars, cmpVars>>

\* What hangs on project p, by shape: nothing; one contributor, a checkin and
\* a sprint with nothing below them; or two contributors, two checkins with
\* attachments and an executed task, a sprint with two tasks, an audit entry.
\* Row ids are p and p + MaxProjects.
Shapes == {"bare", "flat", "full"}
RowsOf(p, shape) ==
    LET q == p + MaxProjects
    IN CASE shape = "flat" ->
              [NoRows EXCEPT !.project_contributors = {[project_id |-> p, user_id |-> 1]},
                             !.checkins = {[id |-> p, projeto_id |-> p]},
                             !.sprints = {[id |-> p, project_id |-> p]}]
         [] shape = "full" ->
              [project_contributors |-> {[project_id |-> p, user_id |-> u] : u \in {1, 2}},
               checkins |-> {[id |-> i, projeto_id |-> p] : i \in {p, q}},
               anexos |-> {[id |-> i, checkin_id |-> i] : i \in {p, q}},
               tarefas_executadas |-> {[id |-> p, checkin_id |-> q]},
               sprints |-> {[id |-> p, project_id |-> p]},
               sprint_tasks |-> {[id |-> i, sprint_id |-> p] : i \in {p, q}},
               logs_auditoria |-> {[id |-> p, tabela |-> "projetos", registro_id |-> p]}]
         [] OTHER -> NoRows

\* The audit entries of other tables' records that carry the same ids.
OtherAudit ==
    [NoRows EXCEPT !.logs_auditoria =
        {[id |-> p + MaxProjects, tabela |-> "clientes", registro_id |-> p] : p \in ProjectIds}]

RECURSIVE AllRows(_, _)
AllRows(shapeOf, P) ==
    IF P = {} THEN OtherAudit
    ELSE LET p == CHOOSE x \in P : TRUE
             rest == AllRows(shapeOf, P \ {p})
             mine == RowsOf(p, shapeOf[p])
         IN [n \in DOMAIN NoRows |-> rest[n] \cup mine[n]]

\* Any table of projects, each absent or present with one of the shapes.
InitDelete ==
    /\ \E shapeOf \in [ProjectIds -> Shapes \cup {"absent"}] :
         /\ db = [i \in ProjectIds |->
                    IF shapeOf[i] = "absent" THEN Absent ELSE Some(to_orm(Project("a")))]
         /\ tables = AllRows(shapeOf, ProjectIds)
    /\ delOp = NoDelOp
    /\ nextId = MaxProjects + 1
    /\ sessions = [s \in SessionIds |-> NewSession]
    /\ nextSession = 1
    /\ uow_session = NoSession
    /\ uow_projects = NoSession
    /\ inScope = FALSE
    /\ fate = [i \in ProjectIds |-> "none"]
    /\ lastOp = Op("init", "ok", NoSession, NoId, TRUE)
    /\ InitCalls
    /\ EntityIdle /\ clock = 0 /\ PagesIdle /\ RestIdle

NextDelete == repo_delete

SpecDelete == InitDelete /\ [][NextDelete]_vars

\* After delete() returned False, the caller commits the session it gave the
\* repository: uow.commit() at the end of the with-block that called
\* uow.projects.delete(id).
caller_commit ==
    /\ delOp.tx = "open"
    /\ db' = tx_commit(Store, delOp.pending).projetos
    /\ tables' = [n \in DOMAIN tables |-> tx_commit(Store, delOp.pending)[n]]
    /\ delOp' = [delOp EXCEPT !.tx = "committed"]
    /\ UNCHANGED <<nextId, sessions, nextSession, uow_session, uow_projects, inScope, fate,
                   lastOp, svcVars, entVars, clock, pageVars, scenVars, cmpVars>>

\* ... or closes it without a commit: get_db's finally after
\* service.delete_project, or the end of the with-block.
caller_close ==
    /\ delOp.tx = "open"
    /\ delOp' = [delOp EXCEPT !.tx = "closed"]
    /\ UNCHANGED <<db, tables, nextId, sessions, nextSession, uow_session, uow_projects,
                   inScope, fate, lastOp, svcVars, entVars, clock, pageVars, scenVars, cmpVars>>

\* delete() on a session with no transaction open.
scoped_delete == delOp.tx # "open" /\ repo_delete

\* The audit entries that a project no longer in the table has left.
AuditOf(P) ==
    {[id |-> p + 2 * MaxProjects, tabela |-> "projetos", registro_id |-> p] : p \in P}

\* Any table of projects as above, where a project that is absent may have
\* audit entries.
InitDeleteScope ==
    /\ \E shapeOf \in [ProjectIds -> Shapes \cup {"absent"}], audited \in SUBSET ProjectIds :
         /\ \A p \in audited : shapeOf[p] = "absent"
         /\ db = [i \in ProjectIds |->
                    IF shapeOf[i] = "absent" THEN Absent ELSE Some(to_orm(Project("a")))]
         /\ tables = [AllRows(shapeOf, ProjectIds) EXCEPT
                          !.logs_auditoria = @ \cup AuditOf(audited)]
    /\ delOp = NoDelOp
    /\ nextId = MaxProjects + 1
    /\ sessions = [s \in SessionIds |-> NewSession]
    /\ nextSession = 1
    /\ uow_session = NoSession
    /\ uow_projects = NoSession
    /\ inScope = FALSE
    /\ fate = [i \in ProjectIds |-> "none"]
    /\ lastOp = Op("init", "ok", NoSession, NoId, TRUE)
    /\ InitCalls
    /\ EntityIdle /\ clock = 0 /\ PagesIdle /\ RestIdle

NextDeleteScope ==
    \/ scoped_delete
    \/ caller_commit
    \/ caller_close

SpecDeleteScope == InitDeleteScope /\ [][NextDeleteScope]_vars

\* ----------------------------------------------------- entity in memory
\* The outcome of an operation on the entity: the entity before the call, the
\* arguments, and the error raised ("none" when the call returned).
EntOp(op, date, reason, error) ==
    [op |-> op, before |-> entity, date |-> date, reason |-> reason, args |-> NoDetails,
     error |-> error]

\* entity.start()
entity_start ==
    /\ UNCHANGED notEntVars
    /\ entity' = start(entity)
    /\ entOp' = EntOp("start", NoDate, None,
                      IF start_raises(entity) THEN InvalidStateTransitionError ELSE "none")

\* entity.pause()
entity_pause ==
    /\ UNCHANGED notEntVars
    /\ entity' = pause(entity)
    /\ entOp' = EntOp("pause", NoDate, None,
                      IF pause_raises(entity) THEN InvalidStateTransitionError ELSE "none")

\* entity.complete(completion_date), with and without the date.
entity_complete ==
    /\ UNCHANGED notEntVars
    /\ \E completion_date \in {NoDate, EarlyDate, LateDate} :
         /\ entity' = complete(entity, completion_date)
         /\ entOp' = EntOp("complete", completion_date, None,
                           IF complete_raises(entity) THEN InvalidStateTransitionError
                           ELSE "none")

\* entity.cancel(reason), with no reason, an empty one and a real one.
entity_cancel ==
    /\ UNCHANGED notEntVars
    /\ \E reason \in {None, "", "r"} :
         /\ reason = "r" => Len(entity.observations) < MaxLines
         /\ entity' = cancel(entity, reason)
         /\ entOp' = EntOp("cancel", None, reason,
                           IF cancel_raises(entity) THEN InvalidStateTransitionError
                           ELSE "none")

\* Any entity the constructor accepts: every status, with and without
\* observations, a planned end date and an actual end date.
InitEntity ==
    /\ InitIdle
    /\ entity \in {[Project("a") EXCEPT !.status = s, !.observations = o,
                                        !.end_date_planned = p, !.end_date_actual = d] :
                     s \in ProjectStatus, o \in {Absent, << "x" >>},
                     p \in {NoDate, LateDate}, d \in {NoDate, EarlyDate}}
    /\ entOp = NoEntOp
    /\ clock = 0
    /\ PagesIdle
    /\ DeleteIdle
    /\ RestIdle

NextEntity ==
    \/ entity_start
    \/ entity_pause
    \/ entity_complete
    \/ entity_cancel

SpecEntity == InitEntity /\ [][NextEntity]_vars

\* ------------------------------------------------- one entity's lifecycle
\* Project(start_date=..., end_date_planned=...): the other fields default.
Project_new(start_date, end_date_planned) ==
    [Project("a") EXCEPT !.start_date = start_date, !.end_date_planned = end_date_planned]

\* __post_init__ raises BusinessRuleViolationError.
post_init_raises(e) == validate_dates_raises(e)

\* An entity has been constructed: the constructor was called and returned.
constructed ==
    /\ entOp.op # "none"
    /\ ~(entOp.op = "construct" /\ entOp.error # "none")

\* entity = Project(start_date, end_date_planned): when __post_init__ raises,
\* no entity comes to exist.
entity_construct ==
    /\ UNCHANGED notEntVars
    /\ ~constructed
    /\ \E start_date \in {FirstDate, Today}, end_date_planned \in {NoDate, FirstDate, LateDate} :
         LET e == Project_new(start_date, end_date_planned)
         IN /\ entity' = IF post_init_raises(e) THEN entity ELSE e
            /\ entOp' = [EntOp("construct", start_date, None,
                                IF post_init_raises(e) THEN BusinessRuleViolationError
                                ELSE "none")
                          EXCEPT !.args = [NoDetails EXCEPT !.end_date_planned = end_date_planned]]

\* The arguments update_details is called with: each one given or left None,
\* at most two given in one call.
DetailArgs ==
    {a \in [name : {None, "b"}, description : {None, "d"},
            end_date_planned : {NoDate, FirstDate, LateDate},
            observations : {Absent, Some(<< "y" >>)}, estimated_value : {None, "v"}] :
        Cardinality({f \in DOMAIN NoDetails : a[f] # NoDetails[f]}) <= 2}

\* entity.update_details(...)
entity_update_details ==
    /\ UNCHANGED notEntVars
    /\ \E a \in DetailArgs :
         /\ entity' = update_details(entity, a.name, a.description, a.end_date_planned,
                                     a.observations, a.estimated_value)
         /\ entOp' = [EntOp("update_details", NoDate, None,
                                IF update_details_raises(entity, a.name, a.description,
                                                         a.end_date_planned, a.observations,
                                                         a.estimated_value)
                                THEN BusinessRuleViolationError ELSE "none")
                          EXCEPT !.args = a]

\* No entity yet.
InitLifecycle == InitIdle /\ OtherIdle

\* An entity is constructed with the default status, and then any operation
\* is called on it, in any order.
NextLifecycle ==
    \/ entity_construct
    \/ constructed /\ entity_start
    \/ constructed /\ entity_pause
    \/ constructed /\ entity_complete
    \/ constructed /\ entity_cancel
    \/ constructed /\ entity_update_details

SpecLifecycle == InitLifecycle /\ [][NextLifecycle]_vars

\* ------------------------------------------------- equality and hashing
\* Project.__eq__(self, other), other being a Project: the ids here are
\* Optional[int], Absent for None.
project_eq(a, b) == a.id # Absent /\ a.id = b.id

\* hash() of an int of this size is the int; id(self) is the object's address.
\* Project.__hash__: `if self.id` is false for None and for 0.
project_hash(e, address) ==
    IF e.id # Absent /\ e.id[1] # 0 THEN e.id[1] ELSE address

\* len({a, b}): a set keeps one of two elements when they are the same object,
\* or have the same hash and compare equal.
set_len(a, address_a, b, address_b) ==
    IF address_a = address_b THEN 1
    ELSE IF project_hash(a, address_a) = project_hash(b, address_b) /\ project_eq(a, b)
    THEN 1 ELSE 2

\* The ids given to the constructor, and the addresses of the objects.
IdArgs == {Absent, Some(0), Some(1), Some(2)}
Addresses == {1001, 1002}

\* a and b are constructed (or b is a itself), compared and hashed, and put
\* in one set.
compare ==
    /\ \E id_a \in IdArgs, id_b \in IdArgs, name_b \in {"a", "b"}, client_b \in {1, 2},
          address_a \in Addresses, address_b \in Addresses :
         LET a == [Project("a") EXCEPT !.id = id_a]
             b == IF address_a = address_b THEN a
                  ELSE [Project(name_b) EXCEPT !.id = id_b, !.client_id = client_b]
         IN cmp' = [a |-> a, b |-> b, same |-> address_a = address_b,
                    eq |-> project_eq(a, b),
                    hash_a |-> project_hash(a, address_a),
                    hash_b |-> project_hash(b, address_b),
                    set_size |-> set_len(a, address_a, b, address_b), done |-> TRUE]
    /\ UNCHANGED <<uowVars, svcVars, entVars, clock, pageVars, delVars, scenVars>>

NextCompare == compare

SpecCompare == InitLifecycle /\ [][NextCompare]_vars

\* ------------------------------------------------ a recorded lifecycle
\* The number of calls recorded on one entity.
MaxOps == 6

\* A call on the entity: it is left as `result`, and the call, its arguments
\* and the error it raised are appended to the record.
Call(op, date, args, error, result) ==
    /\ Len(path) < MaxOps
    /\ entity' = result
    /\ entOp' = [EntOp(op, date, None, error) EXCEPT !.args = args]
    /\ path' = Append(path, [op |-> op, date |-> date, args |-> args, error |-> error])
    /\ UNCHANGED <<uowVars, svcVars, clock, pageVars, delVars, cmpVars>>

\* Project(start_date=date(2025, 1, 1), end_date_planned=date(2025, 1, 10))
recorded_construct ==
    /\ path = << >>
    /\ LET e == Project_new(FirstDate, EarlyDate)
       IN Call("construct", FirstDate, [NoDetails EXCEPT !.end_date_planned = EarlyDate],
               IF post_init_raises(e) THEN BusinessRuleViolationError ELSE "none",
               IF post_init_raises(e) THEN entity ELSE e)

recorded_start ==
    /\ constructed
    /\ Call("start", NoDate, NoDetails,
            IF start_raises(entity) THEN InvalidStateTransitionError ELSE "none",
            start(entity))

recorded_pause ==
    /\ constructed
    /\ Call("pause", NoDate, NoDetails,
            IF pause_raises(entity) THEN InvalidStateTransitionError ELSE "none",
            pause(entity))

\* complete(date(2025, 1, 15)), or a later day
recorded_complete ==
    /\ constructed
    /\ \E completion_date \in {Today, LateDate} :
         Call("complete", completion_date, NoDetails,
              IF complete_raises(entity) THEN InvalidStateTransitionError ELSE "none",
              complete(entity, completion_date))

\* update_details(name=...)
recorded_update ==
    /\ constructed
    /\ LET a == [NoDetails EXCEPT !.name = "b"]
       IN Call("update_details", NoDate, a,
               IF update_details_raises(entity, a.name, a.description, a.end_date_planned,
                                        a.observations, a.estimated_value)
               THEN BusinessRuleViolationError ELSE "none",
               update_details(entity, a.name, a.description, a.end_date_planned,
                              a.observations, a.estimated_value))

NextRecorded ==
    \/ recorded_construct
    \/ recorded_start
    \/ recorded_pause
    \/ recorded_complete
    \/ recorded_update

SpecRecorded == InitLifecycle /\ [][NextRecorded]_vars

\* ------------------------------------------------------- repository.save
\* A save() whose query for the row to update does not look at deleted_at.
save_selects_deleted_too(table, id) ==
    IF id \in DOMAIN table THEN table[id] ELSE Absent

\* The query of save()'s update branch: filter_by(id=project.id,
\* deleted_at=None).first() gives the live row with the id, or None.
save_selects(table, id) ==
    IF id \in DOMAIN table /\ table[id] # Absent /\ table[id][1].deleted_at = None
    THEN table[id] ELSE Absent

\* The call and its outcome: the entity handed to save(), the exception or
\* "ok", the entity returned.
SaveOp(project, res, returned) ==
    [Op("repo_save", res, NoSession, project.id, TRUE) EXCEPT !.val = returned]

\* The entities handed to save(): without id (id None), or with the id of any
\* row the table can hold.
SaveArgs ==
    {[Project(name) EXCEPT !.id = id, !.status = st] :
        name \in {"a", "b"}, id \in {NoId} \cup ProjectIds, st \in {PLANEJAMENTO, EM_ANDAMENTO}}

\* SQLAlchemyProjectRepository.save(project) on a session of its own. ok is
\* whether the database carries out the statements and the commit; when it
\* does not, the error is wrapped in RepositoryError and nothing is committed.
repo_save ==
    /\ \E project \in SaveArgs, ok \in BOOLEAN :
         /\ entity' = project
         /\ IF project.id = NoId
            THEN /\ nextId <= MaxProjects
                 /\ IF ok
                    THEN /\ db' = save_create(db, nextId, project)
                         /\ nextId' = nextId + 1
                         /\ lastOp' = SaveOp(project, "ok",
                                             Some(to_domain(nextId, to_orm(project))))
                    ELSE /\ lastOp' = SaveOp(project, RepositoryError, Absent)
                         /\ UNCHANGED <<db, nextId>>
            ELSE LET orm_project == save_selects(db, project.id)
                 IN IF ~ok
                    THEN /\ lastOp' = SaveOp(project, RepositoryError, Absent)
                         /\ UNCHANGED <<db, nextId>>
                    ELSE IF orm_project = Absent
                    THEN /\ lastOp' = SaveOp(project, ProjectNotFoundError, Absent)
                         /\ UNCHANGED <<db, nextId>>
                    ELSE LET row == flush_update(orm_project[1], orm_project[1], project)
                         IN /\ db' = [db EXCEPT ![project.id] = Some(row)]
                            /\ lastOp' = SaveOp(project, "ok",
                                                Some(to_domain(project.id, row)))
                            /\ UNCHANGED nextId
    /\ UNCHANGED <<sessions, nextSession, uow_session, uow_projects, inScope, fate>>
    /\ UNCHANGED <<svcVars, entOp, clock, pageVars, delVars, scenVars, cmpVars>>

\* The rows a table can hold before the calls: a live one, or a soft-deleted
\* one.
SavedRows ==
    {Some([to_orm(Project("a")) EXCEPT !.deleted_at = d]) : d \in {None, Now}}

\* A table whose first n ids are taken, the others never used.
InitSave ==
    /\ \E n \in 0..MaxProjects :
         /\ db \in {t \in [ProjectIds -> SavedRows \cup {Absent}] :
                       \A i \in ProjectIds : t[i] # Absent <=> i <= n}
         /\ nextId = n + 1
    /\ sessions = [s \in SessionIds |-> NewSession]
    /\ nextSession = 1
    /\ uow_session = NoSession
    /\ uow_projects = NoSession
    /\ inScope = FALSE
    /\ fate = [i \in ProjectIds |-> "none"]
    /\ lastOp = Op("init", "ok", NoSession, NoId, TRUE)
    /\ InitCalls
    /\ OtherIdle

NextSave == repo_save

SpecSave == InitSave /\ [][NextSave]_vars

\* ------------------------------------------------------------------ claims
\* C1 (transaction atomicity): a project saved through the scope's store whose
\* scope then ended by an exception before commit(), or on which rollback() was
\* called, is absent for a fresh scope (get_by_id returns None).
C1_Atomicity ==
    \A id \in ProjectIds :
        fate[id] \in {"aborted", "rolledback"} => FreshGetById(id) = Absent

\* C2 (no implicit commit): commit() on the scope is the only point at which a
\* write becomes durable: a project saved in a scope that has not committed,
\* or that was left normally without commit(), is absent for a fresh scope.
C2_NoImplicitCommit ==
    \A id \in ProjectIds :
        fate[id] \in {"open", "dropped"} => FreshGetById(id) = Absent

\* C3 (failed commit): after commit() failed (and the rollback it runs went
\* through) the session holds nothing pending and no project the scope saved
\* is visible to a fresh scope.
C3_FailedCommit ==
    (lastOp.op = "commit" /\ lastOp.res = "error" /\ lastOp.rbOk) =>
        /\ ~sessions[lastOp.sid].dirty
        /\ ~sessions[lastOp.sid].broken
        /\ \A id \in ProjectIds : fate[id] = "commitfailed" => FreshGetById(id) = Absent

\* C4 (use outside an active scope fails loudly): uow.projects, commit(),
\* flush() and rollback() called while the caller is not inside the with-block
\* each raise RuntimeError.
C4_OutsideScopeRaises ==
    (lastOp.op \in {"projects", "commit", "flush", "rollback"} /\ ~lastOp.inScope) =>
        lastOp.res = RuntimeError

\* C5 (store binding): inside an active scope the store uow.projects returns
\* is the one the scope holds, and it operates on the session of the active
\* scope, the one commit() and rollback() act on.
C5_StoreBinding ==
    (lastOp.op = "projects" /\ lastOp.inScope) =>
        /\ lastOp.res = "repo"
        /\ lastOp.sid = uow_projects
        /\ lastOp.sid = uow_session

\* C6 (read-your-writes): a project saved in the active scope and not yet
\* committed by it is returned by get_by_id in that scope and is absent for
\* every other scope.
C6_ReadYourWrites ==
    \A id \in ProjectIds :
        (inScope /\ fate[id] = "open" /\ ~projects_raises
                 /\ ~get_by_id_raises(projects_property)) =>
            /\ get_by_id(projects_property, id) # Absent
            /\ FreshGetById(id) = Absent

\* C7 (session release): after every exit of the scope the session of that
\* activation is closed and the scope holds no session.
C7_SessionRelease ==
    lastOp.op = "exit" =>
        /\ uow_session = NoSession
        /\ lastOp.sid # NoSession => sessions[lastOp.sid].closed

\* The project a committed row stands for.
RowAsProject(id, row) ==
    [id |-> id, name |-> row.nome, description |-> row.descricao,
     start_date |-> row.data_inicio, end_date_planned |-> row.data_fim_prevista,
     end_date_actual |-> row.data_fim_real, status |-> row.status,
     client_id |-> row.cliente_id, responsible_user_id |-> row.responsavel_id,
     observations |-> row.observacoes, estimated_value |-> row.valor_estimado,
     created_at |-> row.created_at, updated_at |-> row.updated_at,
     deleted_at |-> row.deleted_at]

\* d is a state project id had in the table after some commit.
Committed(id, d) ==
    \E k \in 1..Len(hist[id]) : hist[id][k] # Absent /\ d = RowAsProject(id, hist[id][k][1])

\* C8 (cache invalidation): a get_project that started after a mutating call
\* on the project had returned reads the store, and what it returns is the
\* state of the project at a commit no older than that mutation's (the
\* project's row at that commit, or ProjectNotFoundError when the commit left
\* no live row), whatever other callers' get calls were doing meanwhile.
C8_CacheInvalidation ==
    lastRet.op = "get" =>
        /\ lastRet.seen >= lastRet.need
        /\ lastRet.need > 0 => ~lastRet.hit
        /\ LET at == hist[lastRet.id][lastRet.seen + 1]
           IN /\ lastRet.res = "ok" =>
                    at # Absent /\ lastRet.ent[1] = RowAsProject(lastRet.id, at[1])
              /\ lastRet.res = ProjectNotFoundError =>
                    at = Absent \/ at[1].deleted_at # None
C8_Witness ==
    /\ lastRet.op = "get"
    /\ lastRet.res = "ok"
    /\ lastRet.need > 0
    /\ \E c \in Callers : calls[c].op = "get" /\ calls[c].id = lastRet.id

\* C9 (cache holds only committed snapshots): every entry of the cache, and
\* every value a call has handed to cache.set, is a state the project had in
\* the table after a commit.
C9_CommittedSnapshots ==
    /\ \A id \in ProjectIds : cache[id] # Absent => Committed(id, cache[id][1].value)
    /\ \A c \in Callers : calls[c].setArg # Absent => Committed(calls[c].id, calls[c].setArg[1])
    /\ lastRet.setArg # Absent => Committed(lastRet.id, lastRet.setArg[1])
C9_Witness ==
    \E c \in Callers :
        /\ calls[c].op \in {"update", "start", "cancel"}
        /\ calls[c].pc = "mutate"
        /\ calls[c].setArg # Absent
        /\ ~entity_raises(calls[c].op, calls[c].ent[1], calls[c].arg)
        /\ lastRet.setArg # Absent

\* C10 (invalidation discipline), as the spec states it: every successful
\* mutation, create included, deletes the project's single-entity entry and
\* the list and statistics entries.
C10_Original ==
    (lastRet.op \in {"create", "update", "start", "pause", "complete", "cancel", "delete"}
       /\ lastRet.res = "ok") =>
        {<<"project", lastRet.id>>, <<"list:*", NoId>>, <<"statistics:*", NoId>>}
            \subseteq lastRet.inval

\* C10 (invalidation discipline), amended: every successful update, start,
\* pause, complete, cancel and delete deletes the project's single-entity
\* entry and the list and statistics entries before it returns; a successful
\* create deletes the list and statistics entries only.
C10_InvalidationDiscipline ==
    /\ (lastRet.op \in {"update", "start", "pause", "complete", "cancel", "delete"}
          /\ lastRet.res = "ok") =>
           {<<"project", lastRet.id>>, <<"list:*", NoId>>, <<"statistics:*", NoId>>}
               \subseteq lastRet.inval
    /\ (lastRet.op = "create" /\ lastRet.res = "ok") =>
           lastRet.inval = {<<"list:*", NoId>>, <<"statistics:*", NoId>>}
C10_Witness ==
    /\ lastRet.op \in {"update", "start", "pause", "complete", "cancel", "delete"}
    /\ lastRet.res = "ok"
    /\ lastRet.wrote > 0

\* C17 (start): start() returns exactly when the status was planejamento or
\* pausado, and then the status is em_andamento; from em_andamento, concluido
\* and cancelado it raises InvalidStateTransitionError and the status stays.
C17_Start ==
    entOp.op = "start" =>
        /\ entOp.error = "none" <=> entOp.before.status \in {PLANEJAMENTO, PAUSADO}
        /\ entOp.error = "none" => entity.status = EM_ANDAMENTO
        /\ entOp.error # "none" =>
              /\ entOp.error = InvalidStateTransitionError
              /\ entOp.before.status \in {EM_ANDAMENTO, CONCLUIDO, CANCELADO}
              /\ entity.status = entOp.before.status
C17_Witness ==
    /\ entOp.op = "start"
    /\ entOp.before.status = PAUSADO
    /\ entity.status = EM_ANDAMENTO

\* C18 (pause): pause() returns exactly when the status was em_andamento, and
\* then the status is pausado; from every other status it raises
\* InvalidStateTransitionError and the status stays.
C18_Pause ==
    entOp.op = "pause" =>
        /\ entOp.error = "none" <=> entOp.before.status = EM_ANDAMENTO
        /\ entOp.error = "none" => entity.status = PAUSADO
        /\ entOp.error # "none" =>
              /\ entOp.error = InvalidStateTransitionError
              /\ entity.status = entOp.before.status
C18_Witness ==
    /\ entOp.op = "pause"
    /\ entOp.before.status = EM_ANDAMENTO
    /\ entity.status = PAUSADO

\* C19 (complete): complete(completion_date) returns exactly when the status
\* was em_andamento; then the status is concluido and end_date_actual is the
\* completion date when one was given and today otherwise; from every other
\* status it raises InvalidStateTransitionError and changes nothing.
C19_Complete ==
    entOp.op = "complete" =>
        /\ entOp.error = "none" <=> entOp.before.status = EM_ANDAMENTO
        /\ entOp.error = "none" =>
              /\ entity.status = CONCLUIDO
              /\ entity.end_date_actual # NoDate
              /\ entity.end_date_actual = IF entOp.date # NoDate THEN entOp.date ELSE Today
        /\ entOp.error # "none" =>
              /\ entOp.error = InvalidStateTransitionError
              /\ entity = entOp.before
C19_Witness ==
    /\ entOp.op = "complete"
    /\ entOp.error = "none"
    /\ entOp.date = NoDate
    /\ entOp.before.end_date_actual = NoDate
    /\ entity.end_date_actual = Today

\* C20 (cancel): cancel(reason) raises InvalidStateTransitionError exactly
\* when the status was concluido; from planejamento, em_andamento, pausado and
\* cancelado it returns and the status is cancelado.
C20_Cancel ==
    entOp.op = "cancel" =>
        /\ entOp.error # "none" <=> entOp.before.status = CONCLUIDO
        /\ entOp.error # "none" => entOp.error = InvalidStateTransitionError
        /\ entOp.error = "none" =>
              /\ entOp.before.status \in {PLANEJAMENTO, EM_ANDAMENTO, PAUSADO, CANCELADO}
              /\ entity.status = CANCELADO
C20_Witness ==
    /\ entOp.op = "cancel"
    /\ entOp.error = "none"
    /\ entOp.before.status = CANCELADO
    /\ entity.status = CANCELADO

\* C11 (cache faults never surface): whatever cache call of a service call
\* meets an unreachable backend or an undecodable stored value, the call never
\* raises a cache error, and it returns what it returns with an empty working
\* cache: a get returns the project as the table holds it, or
\* ProjectNotFoundError when no live row has the id; an update, start, pause,
\* complete or cancel returns ProjectNotFoundError, or the error of the entity
\* operation on the stored project with nothing written, or succeeds with the
\* operation's result written to the table.
C11_CacheFaultsNeverSurface ==
    LET r == lastRet
        id == r.id
        live(x) == x # Absent /\ x[1].deleted_at = None
        \* the project in the table when the call read it, and after its commit
        before == hist[id][r.seen + 1]
        after == hist[id][r.wrote + 1]
    IN /\ r.res # RedisError
       /\ r.op = "get" =>
             /\ r.res \in {"ok", ProjectNotFoundError}
             /\ r.res = "ok" <=> live(before)
             /\ r.res = "ok" => r.ent[1] = RowAsProject(id, before[1])
       /\ r.op \in {"update", "start", "pause", "complete", "cancel"} =>
             IF ~live(before) THEN r.res = ProjectNotFoundError /\ r.wrote = 0
             ELSE IF entity_raises(r.op, RowAsProject(id, before[1]), r.arg)
             THEN r.res = entity_error(r.op) /\ r.wrote = 0
             ELSE /\ r.res = "ok"
                  /\ r.wrote = r.seen + 1
                  /\ after = Some(update_orm(before[1],
                                entity_apply(r.op, RowAsProject(id, before[1]), r.arg)))
C11_Witness ==
    /\ lastRet.op \in {"update", "start", "cancel"}
    /\ lastRet.res = "ok"
    /\ lastRet.faults = {"unreachable", "undecodable"}
    /\ lastRet.inval = {}

\* C12 (bounded staleness): whether or not the invalidations after a commit
\* on a project failed, a get_project that started more than one time to live
\* after that commit returns the project as that commit or a later one left
\* it; only a get that started within the window can return an older state.
C12_BoundedStaleness ==
    lastRet.op = "get" =>
        /\ \A k \in 1..ver(lastRet.id) :
              lastRet.started > commitAt[lastRet.id][k + 1] + Ttl => lastRet.seen >= k
        /\ lastRet.res = "ok" =>
              lastRet.ent[1] = RowAsProject(lastRet.id, hist[lastRet.id][lastRet.seen + 1][1])
C12_Witness ==
    /\ lastRet.op = "get"
    /\ lastRet.res = "ok"
    /\ \E c \in Callers :
          /\ calls[c].pc = "inval_list"
          /\ calls[c].id = lastRet.id
          /\ "unreachable" \in calls[c].faults
          /\ calls[c].wrote > 0
          /\ lastRet.started > commitAt[lastRet.id][calls[c].wrote + 1] + Ttl
          /\ lastRet.seen = calls[c].wrote

\* C13 as stated: Last-writer-wins. When two update calls on the same project
\* run concurrently, both complete without error, and the row stored by the
\* second commit is exactly the entity that call saved: every column that
\* _update_orm assigns holds that entity's value.
SavedBy(r) == entity_apply(r.op, RowAsProject(r.id, hist[r.id][r.seen + 1][1]), r.arg)
C13_Original ==
    lastRet.op = "update" =>
        /\ lastRet.res = "ok"
        /\ lastRet.wrote >= 2 =>
              hist[lastRet.id][lastRet.wrote + 1][1]
                  = update_orm(hist[lastRet.id][lastRet.wrote][1], SavedBy(lastRet))

\* C13, amended: when two update calls on the same project run concurrently,
\* both complete without error; in the row stored by the second commit, every
\* column in which the saved entity differs from the row that call read holds
\* the entity's value, and every other column holds either the entity's value
\* or the value the first commit stored.
C13_LastWriterWinsPerColumn ==
    lastRet.op = "update" =>
        /\ lastRet.res = "ok"
        /\ lastRet.wrote >= 2 =>
              LET r == lastRet
                  readRow == hist[r.id][r.seen + 1][1]
                  first == hist[r.id][r.wrote][1]
                  second == hist[r.id][r.wrote + 1][1]
                  target == update_orm(readRow, SavedBy(r))
              IN \A col \in DOMAIN second :
                    /\ target[col] # readRow[col] => second[col] = target[col]
                    /\ second[col] \in {target[col], first[col]}

\* C13 witness: an update has returned that read project 1 before another
\* update's commit and committed after it, each having changed a field.
C13_Witness ==
    /\ lastRet.op = "update" /\ lastRet.res = "ok"
    /\ lastRet.seen = 0 /\ lastRet.wrote = 2
    /\ hist[1][2][1] # hist[1][1][1]
    /\ hist[1][3][1] # hist[1][2][1]

\* The ids of the live rows of the table that pass the listing's filters.
LiveMatching ==
    {i \in DOMAIN db : db[i] # Absent
                         /\ matches_filters(db[i][1], listing.status, listing.client_id)}

\* C14: Cursor pagination completeness. Over a fixed table and fixed filters,
\* the pages from the call without cursor up to the page whose nextCursor is
\* absent, concatenated, hold every live matching row exactly once, in strictly
\* ascending id order, for every page size.
C14_CursorPagination ==
    LET items == listing.items
    IN /\ \A j, k \in 1..Len(items) : j < k => items[j].id < items[k].id
       /\ \A k \in 1..Len(items) :
             /\ items[k].id \in LiveMatching
             /\ items[k] = to_domain(items[k].id, db[items[k].id][1])
       /\ listing.pc = "done" => {items[k].id : k \in 1..Len(items)} = LiveMatching

\* C14 witness: a listing of two pages of one row each is complete, over a
\* table with a soft-deleted row and a row the filters reject.
C14_Witness ==
    /\ listing.pc = "done" /\ listing.pages = 2 /\ Len(listing.items) = 2
    /\ \E i \in RowIds : db[i] # Absent /\ db[i][1].deleted_at # None
    /\ \E i \in RowIds : /\ db[i] # Absent /\ db[i][1].deleted_at = None
                          /\ i \notin LiveMatching

\* The rows of store t that depend on project p: its contributor links, its
\* checkins, the attachments and executed tasks of those checkins, its
\* sprints, the sprint tasks of those sprints, the audit entries of projetos
\* record p.
DependsOn(t, p) ==
    LET cs == {r \in t.checkins : r.projeto_id = p}
        ss == {r \in t.sprints : r.project_id = p}
    IN [project_contributors |-> {r \in t.project_contributors : r.project_id = p},
        checkins |-> cs,
        anexos |-> {r \in t.anexos : \E c \in cs : r.checkin_id = c.id},
        tarefas_executadas |-> {r \in t.tarefas_executadas : \E c \in cs : r.checkin_id = c.id},
        sprints |-> ss,
        sprint_tasks |-> {r \in t.sprint_tasks : \E x \in ss : r.sprint_id = x.id},
        logs_auditoria |-> {r \in t.logs_auditoria : r.tabela = "projetos" /\ r.registro_id = p}]

C21_TerminalStates ==
    [][constructed =>
          /\ entity.status = CONCLUIDO => entity'.status = CONCLUIDO
          /\ entity.status = CANCELADO => entity'.status = CANCELADO]_vars

\* C21 witness: cancel was called on a cancelled entity and returned (it is
\* not refused there), and the entity is still cancelled.
C21_Witness ==
    /\ entOp.op = "cancel" /\ entOp.before.status = CANCELADO /\ entOp.error = "none"
    /\ entOp.reason = "r"
    /\ entity.status = CANCELADO

\* C22: actualEndDate invariant. For an entity constructed in PLANEJAMENTO
\* without end_date_actual, in every state reached by any sequence of
\* operations end_date_actual is set if and only if the status is CONCLUIDO,
\* and no call other than a complete() that returned changes end_date_actual.
C22_ActualEndDate ==
    constructed =>
        /\ entity.end_date_actual # NoDate <=> entity.status = CONCLUIDO
        /\ (entOp.op # "construct" /\ entity.end_date_actual # entOp.before.end_date_actual)
              => (entOp.op = "complete" /\ entOp.error = "none")

\* C22 witness: complete() without a date returned on a running entity: the
\* entity is completed and its end_date_actual, unset before, is today.
C22_Witness ==
    /\ entOp.op = "complete" /\ entOp.error = "none" /\ entOp.date = NoDate
    /\ entOp.before.end_date_actual = NoDate /\ entOp.before.status = EM_ANDAMENTO
    /\ entity.status = CONCLUIDO /\ entity.end_date_actual = Today

\* C23: Date invariant. Construction is rejected exactly when
\* end_date_planned is given and lies before start_date, and likewise
\* update_details with a new end_date_planned on a modifiable entity; in every
\* state of an entity, also after a rejected update_details, end_date_planned,
\* when present, is not before start_date.
C23_DateInvariant ==
    /\ entOp.op = "construct" =>
          (entOp.error = BusinessRuleViolationError
             <=> (entOp.args.end_date_planned # NoDate
                  /\ entOp.args.end_date_planned < entOp.date))
    /\ (entOp.op = "update_details" /\ is_modifiable(entOp.before)
          /\ entOp.args.end_date_planned # NoDate) =>
          (entOp.error = BusinessRuleViolationError
             <=> entOp.args.end_date_planned < entOp.before.start_date)
    /\ constructed =>
          (entity.end_date_planned # NoDate => entity.end_date_planned >= entity.start_date)

\* C24: updateDetails gate. update_details returns only while the status is
\* neither CONCLUIDO nor CANCELADO; in CONCLUIDO or CANCELADO it raises
\* BusinessRuleViolationError, whatever arguments are given, and changes no
\* field.
C24_UpdateGate ==
    entOp.op = "update_details" =>
        /\ entOp.error = "none" => entOp.before.status \notin {CONCLUIDO, CANCELADO}
        /\ entOp.before.status \in {CONCLUIDO, CANCELADO} =>
              /\ entOp.error = BusinessRuleViolationError
              /\ entity = entOp.before

\* C24 witness: update_details with a name and an acceptable date was called
\* on a cancelled entity.
C24_Witness ==
    /\ entOp.op = "update_details" /\ entOp.before.status = CANCELADO
    /\ entOp.args.name = "b" /\ entOp.args.end_date_planned = LateDate
    /\ entOp.error = BusinessRuleViolationError

\* The value of update_details' argument f when it is given.
Supplied(a, f) == IF f = "observations" THEN a[f][1] ELSE a[f]

\* C25: Partial update. An update_details that returned has set each of
\* name, description, end_date_planned, observations, estimated_value that was
\* given with a value to that value, and has left every field that was not
\* given or was None, and every other field of the entity, unchanged.
C25_PartialUpdate ==
    (entOp.op = "update_details" /\ entOp.error = "none") =>
        \A f \in DOMAIN entity :
            IF f \in DOMAIN NoDetails /\ entOp.args[f] # NoDetails[f]
            THEN entity[f] = Supplied(entOp.args, f)
            ELSE entity[f] = entOp.before[f]

\* C25 witness: an update_details that gave a name and observations returned
\* on an entity that had a description and a planned end date.
C25_Witness ==
    /\ entOp.op = "update_details" /\ entOp.error = "none"
    /\ entOp.args = [NoDetails EXCEPT !.name = "b", !.observations = Some(<< "y" >>)]
    /\ entOp.before.description = "d" /\ entOp.before.end_date_planned = LateDate
    /\ entity.description = "d" /\ entity.name = "b"

\* The scenario: Project(start 2025-01-01, planned end 2025-01-10), start,
\* pause, start, complete(2025-01-15).
Scenario ==
    << <<"construct", FirstDate>>, <<"start", NoDate>>, <<"pause", NoDate>>,
       <<"start", NoDate>>, <<"complete", Today>> >>
PathCalls == [k \in 1..Len(path) |-> <<path[k].op, path[k].date>>]
FollowsScenario ==
    /\ Len(path) <= Len(Scenario)
    /\ PathCalls = SubSeq(Scenario, 1, Len(path))

\* C27: Lifecycle scenario. From a new entity with start_date 2025-01-01 and
\* end_date_planned 2025-01-10, the calls start, pause, start,
\* complete(2025-01-15) each return; the entity is then CONCLUIDO with
\* duration_days 14; a following update_details(name=...) raises
\* BusinessRuleViolationError.
C27_LifecycleScenario ==
    /\ FollowsScenario => \A k \in 1..Len(path) : path[k].error = "none"
    /\ PathCalls = Scenario =>
          /\ entity.status = CONCLUIDO
          /\ duration_days(entity) = Some(14)
          /\ entity.start_date = FirstDate
    /\ (PathCalls = Scenario \o << <<"update_details", NoDate>> >>) =>
          /\ path[Len(path)].error = BusinessRuleViolationError
          /\ entity.name = "a"

\* C27 witness: the scenario has been run to its end and the update of the
\* name was refused.
C27_Witness ==
    /\ PathCalls = Scenario \o << <<"update_details", NoDate>> >>
    /\ path[Len(path)].args.name = "b"
    /\ entity.status = CONCLUIDO /\ entity.end_date_actual = Today

\* C26: Identity equality. For all entities a and b, a equals b iff both have
\* an id and the ids are the same, whatever their other fields; two equal
\* entities have the same hash and are one element of a set; an entity
\* without id is not equal to any other entity, a structurally identical copy
\* included.
C26_IdentityEquality ==
    cmp.done =>
        /\ cmp.eq <=> (cmp.a.id # Absent /\ cmp.b.id # Absent /\ cmp.a.id = cmp.b.id)
        /\ cmp.eq => (cmp.hash_a = cmp.hash_b /\ cmp.set_size = 1)
        /\ (cmp.a.id = Absent /\ ~cmp.same) => ~cmp.eq

\* The same for the ids a store assigns (1 and up).
C26_ForAssignedIds ==
    (cmp.done /\ cmp.a.id # Some(0) /\ cmp.b.id # Some(0)) => C26_IdentityEquality

\* C28: Offset listing cap. An offset-based listing never returns more than
\* 100 rows, whatever limit is asked for; a limit above 100 is served as
\* limit 100.
C28_OffsetCap ==
    offsetOp.via # "none" =>
        /\ Len(offsetOp.returned) <= MaxPageSize
        /\ offsetOp.limit > MaxPageSize =>
              offsetOp.returned = get_all(db, offsetOp.skip, MaxPageSize, offsetOp.status,
                                          offsetOp.client_id, offsetOp.responsible_id)

\* The same for the listings made through list_projects.
C28_ListProjectsCap ==
    offsetOp.via = "list_projects" => C28_OffsetCap

\* C29: save is an upsert by presence of id. A save of an entity without id
\* that succeeds inserts exactly one new row, leaves the other rows as they
\* were, and returns the entity with the generated id; a save of an entity
\* whose id has no live row (no row, or a soft-deleted one) that reaches the
\* store fails with ProjectNotFoundError and changes no row.
C29_SaveUpsert ==
    [][lastOp'.op = "repo_save" =>
        LET project == entity'
            res == lastOp'.res
            live(i) == i \in DOMAIN db /\ db[i] # Absent /\ db[i][1].deleted_at = None
        IN /\ (project.id = NoId /\ res = "ok") =>
                \E i \in ProjectIds :
                    /\ db[i] = Absent /\ db'[i] # Absent
                    /\ \A j \in ProjectIds \ {i} : db'[j] = db[j]
                    /\ lastOp'.val =
                          Some([project EXCEPT !.id = i, !.created_at = db'[i][1].created_at])
                    /\ to_domain(i, db'[i][1]) = lastOp'.val[1]
           /\ project.id = NoId => res # ProjectNotFoundError
           /\ (project.id # NoId /\ ~live(project.id)) =>
                /\ res \in {ProjectNotFoundError, RepositoryError}
                /\ db' = db
           /\ (project.id # NoId /\ live(project.id)) => res # ProjectNotFoundError
    ]_vars

\* A save of an entity whose id is that of a soft-deleted row was refused
\* with ProjectNotFoundError, on a table that holds a row an earlier save
\* inserted.
C29_Witness ==
    /\ lastOp.op = "repo_save"
    /\ lastOp.res = ProjectNotFoundError
    /\ db[entity.id] # Absent
    /\ db[entity.id][1].deleted_at # None
    /\ \E i \in ProjectIds : db[i] # Absent /\ db[i][1].nome = "b" /\ db[i][1].updated_at = None

\* C30: Orchestrator get. get_project(id) looks the id up in the cache first
\* and goes to the store only when the lookup gave nothing; it raises
\* ProjectNotFoundError exactly when the lookup gave nothing and the store has
\* no live row for the id, and otherwise returns the project: the cached one
\* on a hit, the live row it read on a miss.
C30_OrchestratorGet ==
    [][/\ \A c \in Callers :
            (calls[c].pc = "idle" /\ calls'[c].pc = "db_get" /\ calls'[c].faults = {}) =>
                cache_get(cache, calls'[c].id, "none") = Absent
       /\ (lastRet' # lastRet /\ lastRet'.op = "get") =>
            LET r == lastRet'
            IN /\ r.res \in {"ok", ProjectNotFoundError}
               /\ r.hit => r.loaded = Absent /\ r.res = "ok"
               /\ r.res = ProjectNotFoundError <=> (~r.hit /\ query_live(db, r.id) = Absent)
               /\ r.res = "ok" =>
                    /\ r.ent # Absent
                    /\ r.ent[1].id = r.id
                    /\ ~r.hit => r.ent = query_live(db, r.id)
    ]_vars

\* A get_project that found nothing in the cache returned the project as a
\* start_project before it had left it in the store.
C30_Witness ==
    /\ lastRet.op = "get"
    /\ lastRet.res = "ok"
    /\ ~lastRet.hit
    /\ lastRet.loaded # Absent
    /\ lastRet.ent # Absent
    /\ lastRet.ent[1].status = EM_ANDAMENTO

\* C31: Cache population on miss. When a get_project that found nothing in
\* the cache (the backend being up) returns the project it read from the
\* store, the cache holds an entry for the id, with the entity as read.
C31_CachePopulation ==
    [][(/\ lastRet' # lastRet
        /\ lastRet'.op = "get"
        /\ lastRet'.res = "ok"
        /\ ~lastRet'.hit
        /\ lastRet'.faults = {}) =>
            /\ cache'[lastRet'.id] # Absent
            /\ cache'[lastRet'.id][1].value = lastRet'.ent[1]
    ]_vars

\* C32: Per-page cursor rule. One call of get_with_cursor(cursor, limit)
\* returns at most limit rows, all live and matching the filters, with ids
\* above the cursor when one is given, in ascending id order; nextCursor is
\* present exactly when a live matching row with a greater id than the last
\* returned row exists, and is then the id of the last returned row.
C32_PerPageRule ==
    listing.pc = "page" =>
        LET page == listing.page
            ids == {page[k].id : k \in 1..Len(page)}
            further == Len(page) > 0 /\ \E i \in LiveMatching : i > page[Len(page)].id
        IN /\ Len(page) <= listing.limit
           /\ ids \subseteq LiveMatching
           /\ \A k \in 1..Len(page) : page[k] = to_domain(page[k].id, db[page[k].id][1])
           /\ listing.after # Absent => \A i \in ids : i > listing.after[1]
           /\ \A j, k \in 1..Len(page) : j < k => page[j].id < page[k].id
           /\ \A i \in LiveMatching :
                 (after_cursor(i, listing.after) /\ i \notin ids /\ Len(page) > 0)
                    => i > page[Len(page)].id
           /\ listing.cursor # Absent <=> further
           /\ listing.cursor # Absent => listing.cursor = Some(page[Len(page)].id)

\* C32 witness: a call with a cursor returned a full page of two rows and a
\* nextCursor, on a table with a soft-deleted row.
C32_Witness ==
    /\ listing.pc = "page"
    /\ listing.after # Absent
    /\ Len(listing.page) = 2 /\ listing.limit = 2
    /\ listing.cursor # Absent
    /\ \E i \in RowIds : db[i] # Absent /\ db[i][1].deleted_at # None

\* C33: Failed orchestrator operation has no effect. When create_project is
\* called with an empty or whitespace-only name, or the entity operation of
\* update/start/pause/complete/cancel raises, the caller gets that error
\* (BusinessRuleViolationError from create and update_details,
\* InvalidStateTransitionError from the transitions), no row of the store is
\* written and no cache entry is deleted.
C33_FailedOperationNoEffect ==
    [][/\ \A c \in Callers :
            (/\ calls[c].pc = "mutate"
             /\ calls'[c] # calls[c]
             /\ entity_raises(calls[c].op, calls[c].ent[1], calls[c].arg)) =>
                /\ calls'[c] = Idle
                /\ lastRet'.op = calls[c].op /\ lastRet'.id = calls[c].id
                /\ lastRet'.res = IF calls[c].op = "update" THEN BusinessRuleViolationError
                                  ELSE InvalidStateTransitionError
                /\ lastRet'.wrote = 0 /\ lastRet'.inval = {}
                /\ db' = db /\ cache' = cache /\ nextId' = nextId
       /\ (/\ lastRet' # lastRet
           /\ lastRet'.op = "create"
           /\ strip(lastRet'.arg.name) = "") =>
                /\ lastRet'.res = BusinessRuleViolationError
                /\ lastRet'.wrote = 0 /\ lastRet'.inval = {}
                /\ db' = db /\ cache' = cache /\ nextId' = nextId
       /\ (/\ lastRet' # lastRet
           /\ lastRet'.res \in {BusinessRuleViolationError, InvalidStateTransitionError}) =>
                /\ lastRet'.wrote = 0 /\ lastRet'.inval = {}
                /\ db' = db /\ cache' = cache
    ]_vars

\* C33 witness: a complete_project on a project in planning, read from the
\* store, was refused with InvalidStateTransitionError, and the row is still
\* in planning.
C33_Witness ==
    /\ lastRet.op = "complete"
    /\ lastRet.res = InvalidStateTransitionError
    /\ lastRet.wrote = 0
    /\ lastRet.loaded # Absent
    /\ db[lastRet.id] # Absent
    /\ db[lastRet.id][1].status = PLANEJAMENTO

\* The store after the first k statements of the last delete as issued, and
\* the number of statements it issued (the one that raised included).
RECURSIVE AfterStatements(_)
AfterStatements(k) ==
    IF k = 0 THEN delOp.before
    ELSE delete_statement(k, AfterStatements(k - 1), delOp.id)
StatementsIssued ==
    IF delOp.raisedAt = 0 \/ delOp.raisedAt > NStatements THEN NStatements
    ELSE delOp.raisedAt

\* The rows of store t that reference a row which t does not hold.
Dangling(t) ==
    [project_contributors |-> {r \in t.project_contributors : t.projetos[r.project_id] = Absent},
     checkins |-> {r \in t.checkins : t.projetos[r.projeto_id] = Absent},
     sprints |-> {r \in t.sprints : t.projetos[r.project_id] = Absent},
     anexos |-> {r \in t.anexos : \A c \in t.checkins : c.id # r.checkin_id},
     tarefas_executadas |-> {r \in t.tarefas_executadas : \A c \in t.checkins : c.id # r.checkin_id},
     sprint_tasks |-> {r \in t.sprint_tasks : \A x \in t.sprints : x.id # r.sprint_id}]

\* C34: Delete order respects foreign keys. No statement that delete(id)
\* issues leaves a row that references a removed row: attachments and
\* executed tasks go before their checkins, sprint tasks before their
\* sprints, contributor links, checkins and sprints before the project row,
\* which only the last statement removes.
C34_DeleteOrder ==
    delOp.id # NoId =>
        \A k \in 1..StatementsIssued :
            /\ \A n \in DOMAIN Dangling(AfterStatements(k)) :
                   Dangling(AfterStatements(k))[n] = {}
            /\ k < NStatements =>
                   AfterStatements(k).projetos = delOp.before.projetos

\* C34 witness: a delete ran all its statements on a project with checkins
\* that had attachments and a sprint that had tasks, and committed.
C34_Witness ==
    /\ delOp.res = "True"
    /\ \E c \in delOp.before.checkins :
          /\ c.projeto_id = delOp.id
          /\ \E a \in delOp.before.anexos : a.checkin_id = c.id
    /\ \E x \in delOp.before.sprints :
          /\ x.project_id = delOp.id
          /\ \E s \in delOp.before.sprint_tasks : s.sprint_id = x.id
    /\ db[delOp.id] = Absent

\* The live rows of the table.
LiveRows == {i \in DOMAIN db : db[i] # Absent /\ db[i][1].deleted_at = None}

\* C35: Soft-deleted rows are invisible to reads. get_by_id, get_all,
\* get_with_cursor and get_overdue_projects return live rows only,
\* count_by_status counts the live rows of the status only, and exists is true
\* of live rows only.
C35_SoftDeletedInvisible ==
    offsetOp.via # "none" =>
        /\ \A k \in 1..Len(offsetOp.returned) : offsetOp.returned[k] \in LiveRows
        /\ offsetOp.via = "count_by_status" =>
              offsetOp.count =
                  Cardinality({i \in LiveRows : db[i][1].status = offsetOp.status})
        /\ offsetOp.via = "exists" => (offsetOp.found <=> offsetOp.id \in LiveRows)
        /\ offsetOp.via = "get_by_id" =>
              (offsetOp.returned # << >> <=> offsetOp.id \in LiveRows)

\* C35 witness: count_by_status counted one running project on a table that
\* holds a live and a soft-deleted running project.
C35_Witness ==
    /\ offsetOp.via = "count_by_status"
    /\ offsetOp.status = EM_ANDAMENTO
    /\ offsetOp.count = 1
    /\ \E i \in DOMAIN db :
          db[i] # Absent /\ db[i][1].status = EM_ANDAMENTO /\ db[i][1].deleted_at # None

\* The edges of the entity state machine: a transition that start, pause,
\* complete or cancel makes from the status.
Edge(from, to) ==
    LET e == [Project("a") EXCEPT !.status = from]
    IN \/ ~start_raises(e) /\ start(e).status = to
       \/ ~pause_raises(e) /\ pause(e).status = to
       \/ ~complete_raises(e) /\ complete(e, NoDate).status = to
       \/ ~cancel_raises(e) /\ cancel(e, None).status = to

\* C36: Stored status follows the state machine. Under every interleaving of
\* concurrent service calls on one project, each change of the status stored
\* in the table is an edge of the entity state machine; a project stored as
\* concluido or cancelado never has its stored status changed.
C36_StoredStatusFollowsStateMachine ==
    [][\A i \in ProjectIds :
          (db[i] # Absent /\ db'[i] # Absent /\ db'[i][1].status # db[i][1].status) =>
              /\ Edge(db[i][1].status, db'[i][1].status)
              /\ db[i][1].status \notin {CONCLUIDO, CANCELADO}
    ]_vars

\* C37: Delete of a missing project changes nothing. When delete(id) has
\* found no project row and returned False, every table holds the rows it
\* held before the call, also after the caller has committed or closed the
\* session.
C37_DeleteMissingChangesNothing ==
    delOp.res = "False" => Store = delOp.before

\* C38: Failed entity operation leaves the entity unchanged. Whenever start,
\* pause, complete, cancel or update_details raises, every field of the entity
\* has the value it had before the call.
C38_FailedOperationUnchanged ==
    (/\ entOp.op \in {"start", "pause", "complete", "cancel", "update_details"}
     /\ entOp.error # "none") =>
        entity = entOp.before

\* The same for the four transitions alone.
C38_FailedTransitionUnchanged ==
    entOp.op \in {"start", "pause", "complete", "cancel"} => C38_FailedOperationUnchanged

\* C39: Cursor traversal under concurrent writes. When other callers insert
\* and delete rows between the page fetches of a traversal, the pages
\* concatenated have strictly ascending ids, hence no id twice, and when the
\* traversal is over they hold every live matching row that was in the table
\* during the whole traversal.
C39_TraversalUnderWrites ==
    LET items == listing.items
    IN /\ \A j, k \in 1..Len(items) : j < k => items[j].id < items[k].id
       /\ listing.pc = "done" =>
             listing.present \subseteq {items[k].id : k \in 1..Len(items)}

\* C39 witness: a traversal of two pages is over; a row was deleted and a row
\* inserted after its first page, a row that was there from the start is in
\* the second page, and the inserted row too.
C39_Witness ==
    /\ listing.pc = "done" /\ listing.pages = 2
    /\ nMutations = 2
    /\ nextId > 1 /\ db[nextId - 1] # Absent /\ db[nextId - 1][1].deleted_at = None
    /\ \E k \in 1..Len(listing.items) : listing.items[k].id = nextId - 1
    /\ \E i \in listing.present : i # nextId - 1 /\ \E k \in 1..Len(listing.page) : listing.page[k].id = i
    /\ \E k \in 1..Len(listing.items) : db[listing.items[k].id] = Absent

\* C40: Cursor traversal terminates. Every nextCursor that a call returns is
\* strictly greater than the cursor the call was made with, and over a fixed
\* table a traversal that follows nextCursor comes to a call that returns no
\* nextCursor, for every limit from 1.
C40_TraversalTerminates ==
    /\ [](listing.cursor # Absent =>
            /\ listing.limit >= 1
            /\ listing.after # Absent => listing.cursor[1] > listing.after[1])
    /\ (listing.pc = "paging") ~> (listing.pc = "done")

\* C40 witness: a traversal came to its end with its third call.
C40_Witness ==
    /\ listing.pc = "done"
    /\ listing.pages = 3
    /\ listing.after # Absent
    /\ listing.cursor = Absent

====
